---- MODULE Spec2Model ----
(***************************************************************************)
(* The spatial binary report codec of vis_tools: SpatialBinary (load,      *)
(* write_binary, combine, the value statistics) over a byte-level file     *)
(* system.                                                                 *)
(*                                                                         *)
(* A file is a sequence of bytes (0..255).  A Python float is a record     *)
(* [k, v]: k = "num" with the integer value v, or one of "nan", "inf",     *)
(* "ninf", "dmax" (sys.float_info.max) and "dmin" (sys.float_info.min,     *)
(* the smallest positive normal double), all with v = 0.  The files of     *)
(* the model hold integer-valued floats, infinities and NaN; negative zero *)
(* and fractions are outside it.  A Python dict is the sequence of its     *)
(* <<key, value>> pairs in insertion order.  An exception a call raises is *)
(* the string naming its class ("ok": none).                               *)
(*                                                                         *)
(* A step of a loop or of a method is an operator whose parameters are the *)
(* values computed so far.                                                 *)
(***************************************************************************)
EXTENDS Integers, Sequences, FiniteSets, TLC

\* ------------------------------------------------------------------ bounds
\* The largest node count and timestep count of an initial file.
MaxNodes == 2
MaxSteps == 2
\* The number of objects a run asks for (constructor and combine calls),
\* and the number of write_binary calls it makes.
MaxCalls == 1
MaxWrites == 1

\* ------------------------------------------------------------- arithmetic
RECURSIVE Pow2(_)
Pow2(n) == IF n = 0 THEN 1 ELSE 2 * Pow2(n - 1)

RECURSIVE Log2(_)
\* floor(log2 n) of n >= 1
Log2(n) == IF n < 2 THEN 0 ELSE 1 + Log2(n \div 2)

Abs(n) == IF n < 0 THEN 0 - n ELSE n

\* bytes[from:to] of Python: the bytes at offsets from .. to-1 that exist
Slice(b, from, to) ==
    SubSeq(b, from + 1, IF to < Len(b) THEN to ELSE Len(b))

RECURSIVE Concat(_)
Concat(seqs) == IF seqs = <<>> THEN <<>> ELSE Head(seqs) \o Concat(Tail(seqs))

\* ------------------------------------------------------------ struct/array
\* struct.unpack("<i", b) and one item of array.array("i").frombytes on a
\* little-endian machine: 4 bytes as a signed two's complement integer.
UnpackI(b) ==
    b[1] + 256 * b[2] + 65536 * b[3]
      + 16777216 * (IF b[4] >= 128 THEN b[4] - 256 ELSE b[4])

\* struct.pack("<i", n), and one item of array.array("I").tofile for n >= 0
PackI(n) ==
    << n % 256, (n \div 256) % 256, (n \div 65536) % 256,
       (n \div 16777216) % 256 >>

\* ------------------------------------------------------------ Python floats
Num(v) == [k |-> "num", v |-> v]
NaN == [k |-> "nan", v |-> 0]
PosInf == [k |-> "inf", v |-> 0]
NegInf == [k |-> "ninf", v |-> 0]
FloatMax == [k |-> "dmax", v |-> 0]
FloatMin == [k |-> "dmin", v |-> 0]

\* math.isnan
IsNaN(x) == x.k = "nan"

\* The order of the doubles in half units: sys.float_info.min lies strictly
\* between 0 and every positive double that a 32-bit float or an arithmetic
\* result of the model can be, sys.float_info.max above all of them.
Ord(x) ==
    CASE x.k = "num" -> 2 * x.v
      [] x.k = "dmin" -> 1
      [] x.k = "dmax" -> 1073741823
      [] x.k = "inf" -> 1073741824
      [] x.k = "ninf" -> 0 - 1073741824

\* a < b, a > b, a == b of Python floats: False when either is NaN
Lt(a, b) == ~IsNaN(a) /\ ~IsNaN(b) /\ Ord(a) < Ord(b)
Gt(a, b) == Lt(b, a)
Eq(a, b) == ~IsNaN(a) /\ ~IsNaN(b) /\ Ord(a) = Ord(b)

\* An IEEE-754 binary32 with sign neg, biased exponent e and fraction m, as
\* a double.
F32Value(neg, e, m) ==
    CASE e = 255 /\ m # 0 -> NaN
      [] e = 255 /\ m = 0 -> IF neg THEN NegInf ELSE PosInf
      [] e = 0 /\ m = 0 -> Num(0)
      [] e >= 127 /\ e <= 150 /\ (8388608 + m) % Pow2(150 - e) = 0 ->
           Num((IF neg THEN 0 - 1 ELSE 1) * ((8388608 + m) \div Pow2(150 - e)))

\* One item of array.array("f").frombytes.
F32Decode(b) ==
    F32Value(b[4] >= 128, (b[4] % 128) * 2 + b[3] \div 128,
             (b[3] % 128) * 65536 + b[2] * 256 + b[1])

F32Bits(neg, e, m) ==
    << m % 256, (m \div 256) % 256, (e % 2) * 128 + m \div 65536,
       (IF neg THEN 128 ELSE 0) + e \div 2 >>

\* The binary32 of the integer with sign neg and magnitude a >= 1, where
\* p = floor(log2 a) < 24.
F32Number(neg, a, p) == F32Bits(neg, 127 + p, a * Pow2(23 - p) - 8388608)

\* One item of array.array("f") written by tofile: the double as a binary32
\* (a C cast: sys.float_info.max becomes inf, sys.float_info.min becomes 0).
F32Encode(x) ==
    CASE x.k = "nan" -> F32Bits(FALSE, 255, 4194304)
      [] x.k \in {"inf", "dmax"} -> F32Bits(FALSE, 255, 0)
      [] x.k = "ninf" -> F32Bits(TRUE, 255, 0)
      [] x.k = "dmin" -> F32Bits(FALSE, 0, 0)
      [] x.k = "num" /\ x.v = 0 -> F32Bits(FALSE, 0, 0)
      [] x.k = "num" /\ x.v # 0 -> F32Number(x.v < 0, Abs(x.v), Log2(Abs(x.v)))

\* ------------------------------------------------------------------- dicts
DictKeys(d) == [i \in 1..Len(d) |-> d[i][1]]
DictKeySet(d) == {d[i][1] : i \in 1..Len(d)}
DictHas(d, key) == \E i \in 1..Len(d) : d[i][1] = key
DictGet(d, key) == d[CHOOSE i \in 1..Len(d) : d[i][1] = key][2]
\* d[key] = value: a key the dict holds keeps its place
DictSet(d, key, value) ==
    IF DictHas(d, key)
    THEN [i \in 1..Len(d) |-> IF d[i][1] = key THEN <<key, value>> ELSE d[i]]
    ELSE Append(d, <<key, value>>)

\* The least element of a non-empty set of integers.
Least(S) == CHOOSE x \in S : \A y \in S : x <= y

RECURSIVE SortedSeq(_)
\* list.sort() of distinct integers
SortedSeq(S) ==
    IF S = {} THEN <<>> ELSE <<Least(S)>> \o SortedSeq(S \ {Least(S)})

\* ------------------------------------------------------------------- paths
PathA == "SpatialReport_A.bin"
PathB == "SpatialReport_B.bin"
Paths == {PathA, PathB}

\* os.path.splitext(os.path.basename(path)[len("SpatialReport_"):])[0]
ChannelName(path) ==
    CASE path = PathA -> "A"
      [] path = PathB -> "B"

NoFile == [exists |-> FALSE, bytes |-> <<>>]
File(bytes) == [exists |-> TRUE, bytes |-> bytes]

\* --------------------------------------------------------- SpatialBinary
\* The object __init__ builds before it reads a file.
NewSpatialBinary(drop_zeros, excluded_node_ids) ==
    [drop_zeros |-> drop_zeros,
     source_file |-> "",
     channel_name |-> "",
     node_count |-> 0,
     value_min |-> FloatMax,
     value_max |-> FloatMin,
     excluded |-> excluded_node_ids,
     timesteps |-> <<>>]

\* The variant of _condition_value that returns its argument.
ConditionValue_Identity(value) == value

\* The variant of _condition_value whose two infinity branches both return
\* sys.float_info.max.
ConditionValue_BothMax(value) ==
    IF IsNaN(value) THEN Num(0)
    ELSE IF value = PosInf THEN FloatMax
    ELSE IF value = NegInf THEN FloatMax
    ELSE value

\* _condition_value
ConditionValue(value) ==
    IF IsNaN(value) THEN Num(0)
    ELSE IF value = PosInf THEN FloatMax
    ELSE IF value = NegInf THEN FloatMin
    ELSE value

\* The variant of IncludedInStats that excludes nothing.
IncludedInStats_Always(node_id, excluded) == TRUE

\* Whether a node's values enter the statistics.
IncludedInStats(node_id, excluded) == node_id \notin excluded

\* The variant of UpdateMin that is min(value, self.value_min): the builtin
\* returns its first argument unless the second is less.
UpdateMin_Builtin(value, value_min) ==
    IF Lt(value_min, value) THEN value_min ELSE value

\* The two statistics updates for one value.
UpdateMin(value, value_min) == IF Lt(value, value_min) THEN value ELSE value_min

UpdateMax(value, value_max) == IF Gt(value, value_max) THEN value ELSE value_max

\* The variant of Dropped that tests value <= 0.0.
Dropped_NotPositive(drop_zeros, value) == drop_zeros /\ ~Gt(value, Num(0))

\* The zero check of _read_binary: whether the value is left out.
Dropped(drop_zeros, value) == drop_zeros /\ Eq(value, Num(0))

\* bin_file.read(count * 4) at offset pos, for count >= 0: the bytes there
\* are, at most count * 4 of them.
ReadItems(data, pos, count) ==
    IF pos >= Len(data) THEN <<>>
    ELSE IF count > (Len(data) - pos) \div 4 THEN SubSeq(data, pos + 1, Len(data))
    ELSE SubSeq(data, pos + 1, pos + count * 4)

\* array.frombytes: the items of a byte string whose length is a multiple of 4
Items(bytes) == [i \in 1..(Len(bytes) \div 4) |-> SubSeq(bytes, 4 * i - 3, 4 * i)]

\* The variant of ReadNode that makes the zero check first: a dropped value
\* does not reach the statistics.
ReadNode_DropFirst(st, self, node_id, value) ==
    IF self.drop_zeros /\ Eq(value, Num(0)) THEN st
    ELSE [err |-> "ok",
          value_min |-> IF node_id \notin self.excluded /\ Lt(value, st.value_min)
                        THEN value ELSE st.value_min,
          value_max |-> IF node_id \notin self.excluded /\ Gt(value, st.value_max)
                        THEN value ELSE st.value_max,
          entries |-> DictSet(st.entries, node_id, value)]

\* The body of the loop over the nodes, for a node of the timestep with
\* its value; st = [err, value_min, value_max, entries].
ReadNode(st, self, node_id, value) ==
    [err |-> "ok",
     value_min |-> IF IncludedInStats(node_id, self.excluded)
                   THEN UpdateMin(value, st.value_min) ELSE st.value_min,
     value_max |-> IF IncludedInStats(node_id, self.excluded)
                   THEN UpdateMax(value, st.value_max) ELSE st.value_max,
     entries |-> IF Dropped(self.drop_zeros, value) THEN st.entries
                 ELSE DictSet(st.entries, node_id, value)]

RECURSIVE ReadNodes(_, _, _, _, _)
\* The loop over the nodes of one timestep from index i on: values[i] and
\* node_ids[i] raise IndexError past the end of their arrays.
ReadNodes(st, i, self, node_ids, values) ==
    IF i >= self.node_count THEN st
    ELSE IF i >= Len(values) \/ i >= Len(node_ids)
    THEN [st EXCEPT !.err = "IndexError"]
    ELSE ReadNodes(ReadNode(st, self, UnpackI(node_ids[i + 1]),
                            F32Decode(values[i + 1])),
                   i + 1, self, node_ids, values)

RECURSIVE ReadTimesteps(_, _, _, _, _, _)
\* self.timesteps.append(entries), with the statistics of the timestep, and
\* on to the next timestep; st is what the loop over the nodes left.
ReadAppend(self, timestep, timestep_count, data, pos, node_ids, st) ==
    IF st.err # "ok" THEN [err |-> st.err, self |-> self]
    ELSE ReadTimesteps([self EXCEPT !.value_min = st.value_min,
                                    !.value_max = st.value_max,
                                    !.timesteps = Append(@, st.entries)],
                       timestep + 1, timestep_count, data, pos, node_ids)

\* One timestep: values.frombytes(values_data), then the loop over the nodes.
ReadBlock(self, timestep, timestep_count, data, pos, node_ids, values_data) ==
    IF Len(values_data) % 4 # 0 THEN [err |-> "ValueError", self |-> self]
    ELSE ReadAppend(self, timestep, timestep_count, data,
                    pos + Len(values_data), node_ids,
                    ReadNodes([err |-> "ok", value_min |-> self.value_min,
                               value_max |-> self.value_max, entries |-> <<>>],
                              0, self, node_ids, Items(values_data)))

\* The loop over the timesteps from index timestep on; pos is the file
\* offset; [err, self].
ReadTimesteps(self, timestep, timestep_count, data, pos, node_ids) ==
    IF timestep >= timestep_count THEN [err |-> "ok", self |-> self]
    ELSE ReadBlock(self, timestep, timestep_count, data, pos, node_ids,
                   ReadItems(data, pos, self.node_count))

\* The end of _read_binary: the statistics conditioned.
ReadConditioned(r) ==
    IF r.err # "ok" THEN r
    ELSE [err |-> "ok",
          self |-> [r.self EXCEPT !.value_min = ConditionValue(@),
                                  !.value_max = ConditionValue(@)]]

\* node_ids.frombytes(node_ids_data), then the timesteps.
ReadBody(self, timestep_count, data, node_ids_data) ==
    IF Len(node_ids_data) % 4 # 0 THEN [err |-> "ValueError", self |-> self]
    ELSE ReadConditioned(
           ReadTimesteps([self EXCEPT !.timesteps = <<>>], 0, timestep_count,
                         data, 8 + Len(node_ids_data), Items(node_ids_data)))

\* bin_file.read(self.node_count * 4): ValueError on a negative length.
ReadNodeIds(self, timestep_count, data) ==
    IF self.node_count < 0 THEN [err |-> "ValueError", self |-> self]
    ELSE ReadBody(self, timestep_count, data, ReadItems(data, 8, self.node_count))

\* The two counts: struct.error when the file has fewer than 8 bytes.
ReadCounts(self, data, counts) ==
    IF Len(counts) < 8 THEN [err |-> "struct.error", self |-> self]
    ELSE ReadNodeIds([self EXCEPT !.node_count = UnpackI(Slice(counts, 0, 4))],
                     UnpackI(Slice(counts, 4, 8)), data)

\* _read_binary on the bytes of a file that exists; [err, self].
ReadBinary(self, bin_file_path, data) ==
    ReadCounts([self EXCEPT !.source_file = bin_file_path,
                            !.channel_name = ChannelName(bin_file_path)],
               data, Slice(data, 0, 8))

\* SpatialBinary(file_path, drop_zeros, excluded_node_ids): [err, self]; the
\* caller has the object only when err = "ok".
SpatialBinary(files, file_path, drop_zeros, excluded_node_ids) ==
    IF file_path = ""
    THEN [err |-> "ok", self |-> NewSpatialBinary(drop_zeros, excluded_node_ids)]
    ELSE IF ~files[file_path].exists
    THEN [err |-> "FileNotFoundError",
          self |-> NewSpatialBinary(drop_zeros, excluded_node_ids)]
    ELSE ReadBinary(NewSpatialBinary(drop_zeros, excluded_node_ids), file_path,
                    files[file_path].bytes)

\* ------------------------------------------------------------ write_binary
\* The variant of WriteRefused that lets every object through.
WriteRefused_Never(self) == FALSE

\* The check that opens write_binary.
WriteRefused(self) == self.drop_zeros

\* array.array("I", node_ids_array): OverflowError on a negative item
UnsignedItems(node_ids_array) ==
    \A i \in 1..Len(node_ids_array) : node_ids_array[i] >= 0

\* The values of one timestep in the order of node_ids_array, as bytes.
ValueBlock(values_dict, node_ids_array) ==
    Concat([i \in 1..Len(node_ids_array) |->
              F32Encode(DictGet(values_dict, node_ids_array[i]))])

RECURSIVE WriteTimesteps(_, _, _, _)
\* The loop over the timesteps from the t-th on: [err, bytes], the bytes
\* written so far; values_dict[node_id] raises KeyError on a missing key.
WriteTimesteps(timesteps, t, node_ids_array, out) ==
    IF t > Len(timesteps) THEN [err |-> "ok", bytes |-> out]
    ELSE IF \E i \in 1..Len(node_ids_array) :
              ~DictHas(timesteps[t], node_ids_array[i])
    THEN [err |-> "KeyError", bytes |-> out]
    ELSE WriteTimesteps(timesteps, t + 1, node_ids_array,
                        out \o ValueBlock(timesteps[t], node_ids_array))

\* The two counts and the node ids.
WriteHeader(self, node_ids_array) ==
    PackI(Len(node_ids_array)) \o PackI(Len(self.timesteps))
      \o Concat([i \in 1..Len(node_ids_array) |-> PackI(node_ids_array[i])])

\* The variant of WriteClosed that leaves source_file as it was.
WriteClosed_SourceKept(self, files, bin_file_path, w) ==
    [err |-> w.err,
     self |-> self,
     files |-> [files EXCEPT ![bin_file_path] = File(w.bytes)]]

\* The variant of write_binary that sets source_file before the with block.
WriteClosed_SourceFirst(self, files, bin_file_path, w) ==
    [err |-> w.err,
     self |-> [self EXCEPT !.source_file = bin_file_path],
     files |-> [files EXCEPT ![bin_file_path] = File(w.bytes)]]

\* The end of write_binary; w is what the with block wrote.  The file is
\* there, with what was written, also when the block raised.
WriteClosed(self, files, bin_file_path, w) ==
    [err |-> w.err,
     self |-> IF w.err = "ok" THEN [self EXCEPT !.source_file = bin_file_path]
              ELSE self,
     files |-> [files EXCEPT ![bin_file_path] = File(w.bytes)]]

\* write_binary from array.array("I", node_ids_array) on; open("", "wb")
\* raises FileNotFoundError.
WriteSorted(self, files, bin_file_path, node_ids_array) ==
    IF ~UnsignedItems(node_ids_array)
    THEN [err |-> "OverflowError", self |-> self, files |-> files]
    ELSE IF bin_file_path = ""
    THEN [err |-> "FileNotFoundError", self |-> self, files |-> files]
    ELSE WriteClosed(self, files, bin_file_path,
                     WriteTimesteps(self.timesteps, 1, node_ids_array,
                                    WriteHeader(self, node_ids_array)))

\* The variant of write_binary that takes the node ids of a grid with no
\* timestep to be none, and writes a header alone.
WriteBinary_EmptyWritten(self, files, bin_file_path) ==
    IF WriteRefused(self)
    THEN [err |-> "ValueError", self |-> self, files |-> files]
    ELSE IF Len(self.timesteps) = 0
    THEN WriteSorted(self, files, bin_file_path, <<>>)
    ELSE WriteSorted(self, files, bin_file_path,
                     SortedSeq(DictKeySet(self.timesteps[1])))

\* write_binary(bin_file_path): [err, self, files].
WriteBinary(self, files, bin_file_path) ==
    IF WriteRefused(self)
    THEN [err |-> "ValueError", self |-> self, files |-> files]
    ELSE IF Len(self.timesteps) = 0
    THEN [err |-> "IndexError", self |-> self, files |-> files]
    ELSE WriteSorted(self, files, bin_file_path,
                     SortedSeq(DictKeySet(self.timesteps[1])))

\* ---------------------------------------------------------------- combine
IsInf(x) == x.k \in {"inf", "ninf"}
Sign(x) == IF x.k = "inf" THEN 1 ELSE IF x.k = "ninf" THEN 0 - 1
           ELSE IF x.v > 0 THEN 1 ELSE IF x.v < 0 THEN 0 - 1 ELSE 0
Signed(s) == IF s > 0 THEN PosInf ELSE NegInf
Negate(x) == IF x.k = "inf" THEN NegInf ELSE IF x.k = "ninf" THEN PosInf
             ELSE IF x.k = "num" THEN Num(0 - x.v) ELSE x

\* add_combiner: value1 + value2
add_combiner(value1, value2) ==
    IF IsNaN(value1) \/ IsNaN(value2) THEN NaN
    ELSE IF IsInf(value1) /\ IsInf(value2)
    THEN (IF value1 = value2 THEN value1 ELSE NaN)
    ELSE IF IsInf(value1) THEN value1
    ELSE IF IsInf(value2) THEN value2
    ELSE Num(value1.v + value2.v)

\* subtract_combiner: value1 - value2
subtract_combiner(value1, value2) == add_combiner(value1, Negate(value2))

\* multiply_combiner: value1 * value2
multiply_combiner(value1, value2) ==
    IF IsNaN(value1) \/ IsNaN(value2) THEN NaN
    ELSE IF IsInf(value1) \/ IsInf(value2)
    THEN (IF Sign(value1) * Sign(value2) = 0 THEN NaN
          ELSE Signed(Sign(value1) * Sign(value2)))
    ELSE Num(value1.v * value2.v)

\* divide_combiner: value1 / value2; Raise is ZeroDivisionError.  A
\* quotient that is no integer is outside the model's floats ("fraction"):
\* the CombineCall action leaves out the calls that compute one.
Raise == [k |-> "raise", v |-> 0]

\* The variant of divide_combiner that divides as IEEE 754 does: by zero,
\* an infinity or NaN.
divide_combiner_IEEE(value1, value2) ==
    IF value2 = Num(0)
    THEN IF IsNaN(value1) \/ value1 = Num(0) THEN NaN ELSE Signed(Sign(value1))
    ELSE IF IsNaN(value1) \/ IsNaN(value2) THEN NaN
    ELSE IF IsInf(value1) /\ IsInf(value2) THEN NaN
    ELSE IF IsInf(value1) THEN Signed(Sign(value1) * Sign(value2))
    ELSE IF IsInf(value2) THEN Num(0)
    ELSE IF value1.v % Abs(value2.v) = 0
    THEN Num(Sign(value2) * (value1.v \div Abs(value2.v)))
    ELSE [k |-> "fraction", v |-> 0]

divide_combiner(value1, value2) ==
    IF value2 = Num(0) THEN Raise
    ELSE IF IsNaN(value1) \/ IsNaN(value2) THEN NaN
    ELSE IF IsInf(value1) /\ IsInf(value2) THEN NaN
    ELSE IF IsInf(value1) THEN Signed(Sign(value1) * Sign(value2))
    ELSE IF IsInf(value2) THEN Num(0)
    ELSE IF value1.v % Abs(value2.v) = 0
    THEN Num(Sign(value2) * (value1.v \div Abs(value2.v)))
    ELSE [k |-> "fraction", v |-> 0]

CombineFuncs == {"add", "subtract", "multiply", "divide"}

\* combine_func(value1, value2)
Apply(combine_func, value1, value2) ==
    CASE combine_func = "add" -> add_combiner(value1, value2)
      [] combine_func = "subtract" -> subtract_combiner(value1, value2)
      [] combine_func = "multiply" -> multiply_combiner(value1, value2)
      [] combine_func = "divide" -> divide_combiner(value1, value2)

\* The variant of NodeCountsDiffer that finds no difference.
NodeCountsDiffer_Never(sb1, sb2) == FALSE

\* The comparisons of the two inputs' node counts and timestep counts.
NodeCountsDiffer(sb1, sb2) == sb1.node_count # sb2.node_count

TimestepCountsDiffer(sb1, sb2) == Len(sb1.timesteps) # Len(sb2.timesteps)

\* The comparison of the two inputs' node ids: whether combine refuses them.
NodesDiffer(sb1_nodes, sb2_nodes) == sb1_nodes # sb2_nodes

\* The body of the loop over the keys of ts1 once combine_func returned or
\* raised; st = [err, value_min, value_max, ts1, calls].  "Unmodelled"
\* marks a call whose values leave the model's floats.
CombineNode(st, nodeId, new_value) ==
    IF new_value = Raise
    THEN [st EXCEPT !.err = "ZeroDivisionError", !.calls = @ + 1]
    ELSE IF new_value.k = "fraction"
    THEN [st EXCEPT !.err = "Unmodelled", !.calls = @ + 1]
    ELSE [err |-> "ok",
          value_min |-> UpdateMin(new_value, st.value_min),
          value_max |-> UpdateMax(new_value, st.value_max),
          ts1 |-> DictSet(st.ts1, nodeId, new_value),
          calls |-> st.calls + 1]

RECURSIVE CombineNodes(_, _, _, _, _)
\* The loop over the keys of ts1 from the j-th on; keys is the list of
\* ts1's keys taken before the loop.
CombineNodes(st, keys, j, ts2, combine_func) ==
    IF j > Len(keys) \/ st.err # "ok" THEN st
    ELSE IF ~DictHas(ts2, keys[j]) THEN [st EXCEPT !.err = "KeyError"]
    ELSE CombineNodes(
           CombineNode(st, keys[j],
                       Apply(combine_func, DictGet(st.ts1, keys[j]),
                             DictGet(ts2, keys[j]))),
           keys, j + 1, ts2, combine_func)

RECURSIVE CombineTimesteps(_, _, _, _, _)
\* The end of one round of the loop over the timesteps; st is what the loop
\* over the keys left.
CombineStored(sb1, i, sb2, combine_func, st) ==
    IF st.err # "ok" THEN [err |-> st.err, sb1 |-> sb1, calls |-> st.calls]
    ELSE CombineTimesteps([sb1 EXCEPT !.value_min = st.value_min,
                                      !.value_max = st.value_max,
                                      !.timesteps[i] = st.ts1],
                          i + 1, sb2, combine_func, st.calls)

\* The loop over the timesteps from the i-th on; [err, sb1, calls].
CombineTimesteps(sb1, i, sb2, combine_func, calls) ==
    IF i > Len(sb1.timesteps) THEN [err |-> "ok", sb1 |-> sb1, calls |-> calls]
    ELSE CombineStored(sb1, i, sb2, combine_func,
                       CombineNodes([err |-> "ok", value_min |-> sb1.value_min,
                                     value_max |-> sb1.value_max,
                                     ts1 |-> sb1.timesteps[i], calls |-> calls],
                                    DictKeys(sb1.timesteps[i]), 1,
                                    sb2.timesteps[i], combine_func))

\* An exception of combine before combine_func is called: msg tells the
\* ValueErrors of the validation apart.
Raised(e, m) ==
    [err |-> e, msg |-> m, self |-> NewSpatialBinary(FALSE, {}), calls |-> 0]

\* The end of combine; r is what the loop over the timesteps left.
CombineConditioned(r) ==
    IF r.err # "ok"
    THEN [err |-> r.err, msg |-> "", self |-> r.sb1, calls |-> r.calls]
    ELSE [err |-> "ok", msg |-> "",
          self |-> [r.sb1 EXCEPT !.value_min = ConditionValue(@),
                                 !.value_max = ConditionValue(@)],
          calls |-> r.calls]

\* combine from its validation on, sb1 and sb2 loaded.
CombineLoaded(sb1, sb2, channel_name, combine_func) ==
    IF sb1.drop_zeros \/ sb2.drop_zeros THEN Raised("ValueError", "drop_zeros")
    ELSE IF NodeCountsDiffer(sb1, sb2)
    THEN Raised("ValueError", "number of nodes")
    ELSE IF TimestepCountsDiffer(sb1, sb2)
    THEN Raised("ValueError", "number of timesteps")
    ELSE IF Len(sb1.timesteps) = 0 THEN Raised("IndexError", "")
    ELSE IF NodesDiffer(DictKeys(sb1.timesteps[1]), DictKeys(sb2.timesteps[1]))
    THEN Raised("ValueError", "node ids")
    ELSE CombineConditioned(
           CombineTimesteps([sb1 EXCEPT !.value_min = FloatMax,
                                        !.value_max = FloatMin,
                                        !.source_file = "",
                                        !.channel_name = channel_name],
                            1, sb2, combine_func, 0))

\* The two constructor calls that open combine, l1 and l2 their outcomes.
CombineLoads(l1, l2, channel_name, combine_func) ==
    IF l1.err # "ok" THEN Raised(l1.err, "load")
    ELSE IF l2.err # "ok" THEN Raised(l2.err, "load")
    ELSE CombineLoaded(l1.self, l2.self, channel_name, combine_func)

\* The variant of combine that loads its two inputs with drop_zeros=True.
Combine_Sparse(files, bin_file_path_1, bin_file_path_2, channel_name, combine_func) ==
    CombineLoads(SpatialBinary(files, bin_file_path_1, TRUE, {}),
                 SpatialBinary(files, bin_file_path_2, TRUE, {}),
                 channel_name, combine_func)

\* combine(bin_file_path_1, bin_file_path_2, channel_name, combine_func):
\* [err, msg, self, calls]; calls counts the calls of combine_func, self is
\* the object returned when err = "ok".
Combine(files, bin_file_path_1, bin_file_path_2, channel_name, combine_func) ==
    CombineLoads(SpatialBinary(files, bin_file_path_1, FALSE, {}),
                 SpatialBinary(files, bin_file_path_2, FALSE, {}),
                 channel_name, combine_func)

\* ------------------------------------------------------------ file handles
\* The variant of WithExit that closes the file by a bin_file.close() that
\* ends the block: an exception in the block leaves the file open.
WithExit_OnReturn(open_files, err) ==
    IF err = "ok" THEN open_files - 1 ELSE open_files

\* The number of open files once a "with open(...) as bin_file:" statement
\* is left, by the end of its block or by an exception in it (err).
WithExit(open_files, err) == open_files - 1

\* The open files after SpatialBinary(file_path, ...) or
\* SpatialBinaryHeader(file_path): no open() for the path "", and open()
\* raises, with no file opened, when no file is there.
ReadHandles(open_files, files, file_path, err) ==
    IF file_path = "" THEN open_files
    ELSE IF ~files[file_path].exists THEN open_files
    ELSE WithExit(open_files + 1, err)

\* Whether write_binary gets as far as its open().
WriteOpens(self) ==
    /\ ~WriteRefused(self)
    /\ Len(self.timesteps) > 0
    /\ UnsignedItems(SortedSeq(DictKeySet(self.timesteps[1])))

\* The open files after write_binary(bin_file_path): open("") raises.
WriteHandles(open_files, self, bin_file_path, err) ==
    IF WriteOpens(self) /\ bin_file_path # ""
    THEN WithExit(open_files + 1, err)
    ELSE open_files

\* The open files after combine: the second file is read when the first
\* was read.
CombineSecond(open_files, files, bin_file_path_2, err1, err2) ==
    IF err1 # "ok" THEN open_files
    ELSE ReadHandles(open_files, files, bin_file_path_2, err2)

CombineHandles(open_files, files, bin_file_path_1, bin_file_path_2) ==
    CombineSecond(
      ReadHandles(open_files, files, bin_file_path_1,
                  SpatialBinary(files, bin_file_path_1, FALSE, {}).err),
      files, bin_file_path_2,
      SpatialBinary(files, bin_file_path_1, FALSE, {}).err,
      SpatialBinary(files, bin_file_path_2, FALSE, {}).err)

\* ------------------------------------------------------------- the inputs
\* Node ids 10 and 20, and the id whose top bit is set.
IdWords == {PackI(10), PackI(20), PackI(0 - 1)}
Values == {Num(0), Num(1), Num(0 - 1), PosInf, NegInf, NaN}

\* A well-formed file: the header, the node id table, then one block of
\* values per timestep; ids[i] is a word, vals[t][i] a float.
FileBytes(ids, vals) ==
    PackI(Len(ids)) \o PackI(Len(vals)) \o Concat(ids)
      \o Concat([t \in 1..Len(vals) |->
                   Concat([i \in 1..Len(ids) |-> F32Encode(vals[t][i])])])

\* Value matrices: the value b everywhere but in at most one cell, which
\* holds a value of X.
Matrices(n, t, B, X) ==
    {[tt \in 1..t |-> [i \in 1..n |-> b]] : b \in B}
    \cup {[tt \in 1..t |-> [i \in 1..n |->
             IF tt = ct /\ i = ci THEN x ELSE b]] :
          ct \in 1..t, ci \in 1..n, b \in B, x \in X}

\* The files of a file system that holds one report: node 10 first, then
\* any node ids (10 again, 20, the id with the top bit set); the value 0 or
\* 1 everywhere but in at most one cell, which holds any value.
Tables(n) == {ids \in [1..n -> IdWords] : n > 0 => ids[1] = PackI(10)}

WellFormedFiles ==
    UNION {{FileBytes(ids, vals) :
              ids \in Tables(n),
              vals \in Matrices(n, t, {Num(0), Num(1)}, Values)} :
           n \in 0..MaxNodes, t \in 0..MaxSteps}

\* The files of a file system that holds two reports: one node or MaxNodes
\* nodes, with distinct ids of 10, 20, ... in any order; no timestep or
\* MaxSteps timesteps; the value 1 everywhere but in at most the first cell,
\* which holds 0 or +inf.
PairIds == {PackI(10 * i) : i \in 1..MaxNodes}

PairTables(n) ==
    {ids \in [1..n -> PairIds] :
       \A i \in 1..n, j \in 1..n : ids[i] = ids[j] => i = j}

PairMatrices(n, t) ==
    {m \in Matrices(n, t, {Num(1)}, {Num(0), PosInf}) :
       \A tt \in 1..t, i \in 1..n : m[tt][i] # Num(1) => tt = 1 /\ i = 1}

PairFiles ==
    UNION {{FileBytes(ids, vals) :
              ids \in PairTables(n), vals \in PairMatrices(n, t)} :
           n \in {1, MaxNodes}, t \in {0, MaxSteps}}

\* The files of a file system that holds a report cut short: every prefix
\* of a report with the value 1 everywhere but in at most one cell, which
\* holds 0; and the files that are a header alone, with counts whose top
\* bit is set.
WholeFiles ==
    UNION {{FileBytes(ids, vals) :
              ids \in Tables(n), vals \in Matrices(n, t, {Num(1)}, {Num(0)})} :
           n \in 0..MaxNodes, t \in 0..MaxSteps}

Prefixes(data) == {SubSeq(data, 1, k) : k \in 0..Len(data)}

CountWords == {PackI(0), PackI(1), PackI(0 - 1), PackI(0 - 2147483647 - 1)}

CutFiles ==
    UNION {Prefixes(data) : data \in WholeFiles}
    \cup {n \o t : n \in CountWords, t \in CountWords}

\* The exclusion sets and the inputs of _condition_value a run may pass.
ExclusionSets == {{}, {10}}
ConditionInputs == Values \cup {FloatMax, FloatMin, Num(2)}

\* ------------------------------------------------------------ the machine
VARIABLES
    fs,      \* the file system: path -> [exists, bytes]
    sb,      \* the caller's SpatialBinary object: <<>> or <<object>>
    log,     \* the calls made, in order: name, arguments and outcome
    reads,   \* the calls made that only read: header, __getitem__, __len__
    clone,   \* the caller's copy of sb: <<>> or <<[self, shared, edits]>>
    vis,     \* the caller's VisSet: <<>> or <<[self, calls, today]>>
    handles, \* the number of files the process holds open
    spatial_reports  \* the caller's SpatialReports: <<>> or <<[self, last]>>

\* What the constructor, write_binary, combine and _condition_value leave
\* alone.
rest == <<reads, clone, vis, spatial_reports>>

vars == <<fs, sb, log, reads, clone, vis, handles, spatial_reports>>

Call(op, err) ==
    [op |-> op, err |-> err, msg |-> "", path |-> "", path2 |-> "",
     drop_zeros |-> FALSE, excluded |-> {}, func |-> "", ncalls |-> 0,
     arg |-> Num(0), ret |-> Num(0)]

\* The write_binary calls made, and the other calls made.
Writes == Cardinality({i \in 1..Len(log) : log[i].op = "write_binary"})
Calls == Len(log) - Writes

Start ==
    /\ sb = <<>>
    /\ log = <<>>
    /\ reads = <<>>
    /\ clone = <<>>
    /\ vis = <<>>
    /\ handles = 0
    /\ spatial_reports = <<>>

\* One report, at the first path.
Init ==
    /\ \E a \in WellFormedFiles :
         fs = [p \in Paths |-> IF p = PathA THEN File(a) ELSE NoFile]
    /\ Start

\* Two reports.
InitPair ==
    /\ \E a \in PairFiles, b \in PairFiles :
         fs = [p \in Paths |-> IF p = PathA THEN File(a) ELSE File(b)]
    /\ Start

\* The caller's object after a call that returns one or raises.
Returned(r) == IF r.err = "ok" THEN <<r.self>> ELSE sb

LoadRecord(r, file_path, drop_zeros, excluded_node_ids) ==
    [Call("load", r.err) EXCEPT !.path = file_path, !.drop_zeros = drop_zeros,
                                !.excluded = excluded_node_ids]

LoadDone(r, file_path, drop_zeros, excluded_node_ids) ==
    /\ sb' = Returned(r)
    /\ log' = Append(log, LoadRecord(r, file_path, drop_zeros, excluded_node_ids))
    /\ handles' = ReadHandles(handles, fs, file_path, r.err)
    /\ UNCHANGED <<fs, rest>>

\* sb = SpatialBinary(file_path, drop_zeros, excluded_node_ids)
Load(file_path, drop_zeros, excluded_node_ids) ==
    /\ Calls < MaxCalls
    /\ LoadDone(SpatialBinary(fs, file_path, drop_zeros, excluded_node_ids),
                file_path, drop_zeros, excluded_node_ids)

WriteDone(r, bin_file_path) ==
    /\ sb' = <<r.self>>
    /\ fs' = r.files
    /\ log' = Append(log, [Call("write_binary", r.err) EXCEPT
                             !.path = bin_file_path])
    /\ handles' = WriteHandles(handles, sb[1], bin_file_path, r.err)
    /\ UNCHANGED rest

\* sb.write_binary(bin_file_path)
Write(bin_file_path) ==
    /\ Writes < MaxWrites
    /\ sb # <<>>
    /\ WriteDone(WriteBinary(sb[1], fs, bin_file_path), bin_file_path)

CombineRecord(r, bin_file_path_1, bin_file_path_2, combine_func) ==
    [Call("combine", r.err) EXCEPT
       !.msg = r.msg, !.path = bin_file_path_1, !.path2 = bin_file_path_2,
       !.func = combine_func, !.ncalls = r.calls]

CombineDone(r, bin_file_path_1, bin_file_path_2, combine_func) ==
    /\ sb' = Returned(r)
    /\ log' = Append(log, CombineRecord(r, bin_file_path_1, bin_file_path_2,
                                        combine_func))
    /\ handles' = CombineHandles(handles, fs, bin_file_path_1, bin_file_path_2)
    /\ UNCHANGED <<fs, rest>>

\* sb = SpatialBinary.combine(path_1, path_2, "Combined", combine_func)
CombineCall(bin_file_path_1, bin_file_path_2, combine_func) ==
    /\ Calls < MaxCalls
    /\ Combine(fs, bin_file_path_1, bin_file_path_2, "Combined",
               combine_func).err # "Unmodelled"
    /\ CombineDone(Combine(fs, bin_file_path_1, bin_file_path_2, "Combined",
                           combine_func),
                   bin_file_path_1, bin_file_path_2, combine_func)

\* SpatialBinary._condition_value(value)
Condition(value) ==
    /\ Calls < MaxCalls
    /\ log' = Append(log, [Call("_condition_value", "ok") EXCEPT
                             !.arg = value, !.ret = ConditionValue(value)])
    /\ UNCHANGED <<fs, sb, rest, handles>>

Next ==
    \/ \E p \in Paths \cup {""}, d \in BOOLEAN, x \in ExclusionSets : Load(p, d, x)
    \/ \E p \in Paths : Write(p)
    \/ \E p \in Paths, q \in Paths, f \in CombineFuncs : CombineCall(p, q, f)
    \/ \E v \in ConditionInputs : Condition(v)

Spec == Init /\ [][Next]_vars

SpecPair == InitPair /\ [][Next]_vars

\* ---------------------------------------------------- SpatialBinaryHeader
\* The object __init__ builds before it reads a file.
NewSpatialBinaryHeader == [source_file |-> "", node_count |-> 0, timestep_count |-> 0]

\* The variant of HeaderRead that reads its 8 bytes 4 bytes further on.
HeaderRead_Skip(data) == Slice(data, 4, 12)

\* bin_file.read(8) on a file just opened
HeaderRead(data) == Slice(data, 0, 8)

\* The two struct.unpack calls: struct.error when counts[0:4] or counts[4:8]
\* has fewer than 4 bytes.
HeaderCounts(self, counts) ==
    IF Len(counts) < 8 THEN [err |-> "struct.error", self |-> self]
    ELSE [err |-> "ok",
          self |-> [self EXCEPT !.node_count = UnpackI(Slice(counts, 0, 4)),
                                !.timestep_count = UnpackI(Slice(counts, 4, 8))]]

\* SpatialBinaryHeader(file_path): [err, self]; the caller has the object
\* only when err = "ok".
SpatialBinaryHeader(files, file_path) ==
    IF file_path = "" THEN [err |-> "ok", self |-> NewSpatialBinaryHeader]
    ELSE IF ~files[file_path].exists
    THEN [err |-> "FileNotFoundError", self |-> NewSpatialBinaryHeader]
    ELSE HeaderCounts([NewSpatialBinaryHeader EXCEPT !.source_file = file_path],
                      HeaderRead(files[file_path].bytes))

\* ------------------------------------------------- __len__ and __getitem__
\* __len__
SpatialBinaryLen(self) == Len(self.timesteps)

\* __getitem__: self.timesteps[timestep_index] of a Python list, where a
\* negative index counts from the end; [err, value].
GetItemOf(self, timestep_index) ==
    IF timestep_index >= Len(self.timesteps)
       \/ timestep_index < 0 - Len(self.timesteps)
    THEN [err |-> "IndexError", value |-> <<>>]
    ELSE IF timestep_index < 0
    THEN [err |-> "ok",
          value |-> self.timesteps[Len(self.timesteps) + timestep_index + 1]]
    ELSE [err |-> "ok", value |-> self.timesteps[timestep_index + 1]]

\* ------------------------------------------------------- the reading calls
\* The number of reading calls of a run.
MaxReads == 1

\* The indexes a run may pass to __getitem__.
Indexes == (0 - MaxSteps - 1)..(MaxSteps + 1)

Read(op, err) == [op |-> op, err |-> err, path |-> "", index |-> 0, value |-> <<>>]

\* header = SpatialBinaryHeader(file_path)
Header(file_path) ==
    /\ Len(reads) < MaxReads
    /\ reads' = Append(reads,
                       [Read("header", SpatialBinaryHeader(fs, file_path).err)
                          EXCEPT !.path = file_path,
                                 !.value = SpatialBinaryHeader(fs, file_path).self])
    /\ handles' = ReadHandles(handles, fs, file_path,
                              SpatialBinaryHeader(fs, file_path).err)
    /\ UNCHANGED <<fs, sb, log, clone, vis, spatial_reports>>

\* sb[timestep_index]
GetItem(timestep_index) ==
    /\ Len(reads) < MaxReads
    /\ sb # <<>>
    /\ reads' = Append(reads,
                       [Read("__getitem__", GetItemOf(sb[1], timestep_index).err)
                          EXCEPT !.index = timestep_index,
                                 !.value = GetItemOf(sb[1], timestep_index).value])
    /\ UNCHANGED <<fs, sb, log, clone, vis, spatial_reports, handles>>

\* len(sb)
LenCall ==
    /\ Len(reads) < MaxReads
    /\ sb # <<>>
    /\ reads' = Append(reads, [Read("__len__", "ok") EXCEPT
                                 !.value = SpatialBinaryLen(sb[1])])
    /\ UNCHANGED <<fs, sb, log, clone, vis, spatial_reports, handles>>

\* A report cut short, at the first path.
InitCut ==
    /\ \E a \in CutFiles :
         fs = [p \in Paths |-> IF p = PathA THEN File(a) ELSE NoFile]
    /\ Start

NextCut ==
    \/ \E p \in Paths \cup {""}, d \in BOOLEAN, x \in ExclusionSets : Load(p, d, x)
    \/ \E p \in Paths \cup {""} : Header(p)
    \/ \E i \in Indexes : GetItem(i)
    \/ LenCall

SpecCut == InitCut /\ [][NextCut]_vars

\* ------------------------------------------------------------------ clone
\* A copy of an object is its value with the mutable parts it holds by
\* reference in common with the original rather than as objects of its own
\* (shared): a change made to such a part through either object shows in
\* both.  edits counts the changes made since the copy.

\* The variant of clone that is copy.copy(self): a new object whose
\* timesteps list is the original's.
Clone_Shallow(self) == [self |-> self, shared |-> {"timesteps"}, edits |-> 0]

\* clone: copy.deepcopy(self) copies every list, dict and set it reaches.
Clone(self) == [self |-> self, shared |-> {}, edits |-> 0]

\* The number of changes a run makes to the two objects after the copy.
MaxEdits == 2

\* The node ids, the value and the channel name a change may set.
EditNodes == {10, 30}
EditValue == Num(7)
EditName == "Edited"

\* copy = sb.clone()
CloneCall ==
    /\ sb # <<>>
    /\ clone = <<>>
    /\ clone' = <<Clone(sb[1])>>
    /\ UNCHANGED <<fs, sb, log, reads, vis, spatial_reports, handles>>

\* The grid after timesteps[t][n] = v, and after del timesteps[t][n].
WithEntry(self, t, n, v) ==
    [self EXCEPT !.timesteps[t] = DictSet(@, n, v)]

WithoutEntry(self, t, n) ==
    [self EXCEPT !.timesteps[t] =
       SelectSeq(@, LAMBDA entry : entry[1] # n)]

\* The two objects after a change of the timesteps of the one named who
\* ("sb" or "copy") to those of the grid changed.
Edited(who, changed) ==
    /\ sb' = IF who = "sb" \/ "timesteps" \in clone[1].shared
             THEN <<[sb[1] EXCEPT !.timesteps = changed.timesteps]>>
             ELSE sb
    /\ clone' = <<[clone[1] EXCEPT
                     !.self.timesteps =
                        IF who = "copy" \/ "timesteps" \in clone[1].shared
                        THEN changed.timesteps ELSE @,
                     !.edits = @ + 1]>>
    /\ UNCHANGED <<fs, log, reads, vis, spatial_reports, handles>>

\* The object named who.
Named(who) == IF who = "sb" THEN sb[1] ELSE clone[1].self

\* who.timesteps[t][n] = EditValue
SetEntry(who, t, n) ==
    /\ clone # <<>> /\ sb # <<>>
    /\ clone[1].edits < MaxEdits
    /\ t \in 1..Len(Named(who).timesteps)
    /\ Edited(who, WithEntry(Named(who), t, n, EditValue))

\* del who.timesteps[t][n]
DelEntry(who, t, n) ==
    /\ clone # <<>> /\ sb # <<>>
    /\ clone[1].edits < MaxEdits
    /\ t \in 1..Len(Named(who).timesteps)
    /\ DictHas(Named(who).timesteps[t], n)
    /\ Edited(who, WithoutEntry(Named(who), t, n))

\* The object after an assignment to one of its attributes.
WithField(self, field) ==
    CASE field = "value_min" -> [self EXCEPT !.value_min = EditValue]
      [] field = "value_max" -> [self EXCEPT !.value_max = EditValue]
      [] field = "channel_name" -> [self EXCEPT !.channel_name = EditName]

Fields == {"value_min", "value_max", "channel_name"}

\* who.value_min = EditValue, who.value_max = EditValue,
\* who.channel_name = EditName
SetField(who, field) ==
    /\ clone # <<>> /\ sb # <<>>
    /\ clone[1].edits < MaxEdits
    /\ sb' = IF who = "sb" THEN <<WithField(sb[1], field)>> ELSE sb
    /\ clone' = <<[clone[1] EXCEPT
                     !.self = IF who = "copy" THEN WithField(@, field) ELSE @,
                     !.edits = @ + 1]>>
    /\ UNCHANGED <<fs, log, reads, vis, spatial_reports, handles>>

WriteCloneDone(r, bin_file_path) ==
    /\ clone' = <<[clone[1] EXCEPT !.self = r.self, !.edits = @ + 1]>>
    /\ fs' = r.files
    /\ handles' = WriteHandles(handles, clone[1].self, bin_file_path, r.err)
    /\ UNCHANGED <<sb, log, reads, vis, spatial_reports>>

\* copy.write_binary(bin_file_path)
WriteClone(bin_file_path) ==
    /\ clone # <<>>
    /\ clone[1].edits < MaxEdits
    /\ WriteCloneDone(WriteBinary(clone[1].self, fs, bin_file_path), bin_file_path)

\* The files of a file system that holds one report to copy: MaxNodes nodes,
\* 10 and 20, and MaxSteps timesteps, or none; the value 1 everywhere but in
\* at most the first cell, which holds 0.
CloneFiles ==
    {FileBytes(<<PackI(10), PackI(20)>>, vals) :
       vals \in PairMatrices(2, 0) \cup PairMatrices(2, MaxSteps)}

InitClone ==
    /\ \E a \in CloneFiles :
         fs = [p \in Paths |-> IF p = PathA THEN File(a) ELSE NoFile]
    /\ Start

Names == {"sb", "copy"}

NextClone ==
    \/ \E p \in Paths \cup {""}, d \in BOOLEAN, x \in ExclusionSets : Load(p, d, x)
    \/ CloneCall
    \/ \E w \in Names, t \in 1..MaxSteps, n \in EditNodes : SetEntry(w, t, n)
    \/ \E w \in Names, t \in 1..MaxSteps, n \in EditNodes : DelEntry(w, t, n)
    \/ \E w \in Names, f \in Fields : SetField(w, f)
    \/ \E p \in Paths : Write(p)
    \/ \E p \in Paths : WriteClone(p)

SpecClone == InitClone /\ [][NextClone]_vars

\* ----------------------------------------------------------------- VisSet
\* startDate is a day number (date.toordinal) and StartDateUnset stands for
\* the string "1970-1-1", which no isoformat() yields.
StartDateUnset == 0

\* timedelta(days) takes at most MaxDays days either way, and the last day a
\* date holds is MaxOrdinal.
MaxDays == 999999999
MaxOrdinal == 3652059

\* The days date.today() may return: 1970-01-01 and 2026-11-05.
Todays == {719163, 739925}

\* VisSet(): the fields add_spatial_reports and set_config use.  config is
\* <<>> for None and <<Simulation_Duration>> for a Config.
NewVisSet ==
    [config |-> <<>>, timestepCount |-> 0, startDate |-> StartDateUnset,
     links |-> <<>>, excluded_nodes |-> {}]

\* if self.startDate == "1970-1-1":
\*     self.startDate = (date.today() - timedelta(self.timestepCount)).isoformat()
SetStartDate(self, today) ==
    IF self.startDate # StartDateUnset
    THEN [err |-> "ok", self |-> self]
    ELSE IF self.timestepCount > MaxDays \/ self.timestepCount < 0 - MaxDays
    THEN [err |-> "OverflowError", self |-> self]
    ELSE IF today - self.timestepCount < 1
            \/ today - self.timestepCount > MaxOrdinal
    THEN [err |-> "OverflowError", self |-> self]
    ELSE [err |-> "ok",
          self |-> [self EXCEPT !.startDate = today - self.timestepCount]]

\* set_config, for a config file that holds Simulation_Duration
SetConfigOf(self, duration, today) ==
    SetStartDate([self EXCEPT !.config = <<duration>>,
                              !.timestepCount = duration], today)

\* path.splitext(path.basename(fp))[0]
LinkName(fp) ==
    CASE fp = PathA -> "SpatialReport_A"
      [] fp = PathB -> "SpatialReport_B"

\* A second report of the channel A, in another directory.
PathA2 == "products/SpatialReport_A.bin"

\* leaf[len("SpatialReport_"):].replace("_", " ")
FriendlyName(fp) ==
    CASE fp = PathA2 -> "A"
      [] OTHER -> ChannelName(fp)

\* url.replace("\\", "/"): neither path holds a backslash
Url(url) ==
    CASE url = PathA -> PathA
      [] url = PathB -> PathB

\* The entry _add_link stores for a report.
Link(url, spatial_report) ==
    [url |-> Url(url), show |-> TRUE, friendlyName |-> FriendlyName(url),
     min |-> spatial_report.value_min, max |-> spatial_report.value_max]

\* The comparison of the count the header gave, which self.timestepCount
\* holds by now, with the count it held before.
CheckCount(self, old_timestep_count, today) ==
    IF old_timestep_count # 0 /\ old_timestep_count # self.timestepCount
    THEN [err |-> "ValueError", self |-> self]
    ELSE SetStartDate(self, today)

InspectHeader(self, header, today) ==
    IF header.err # "ok"
    THEN [err |-> header.err, self |-> self]
    ELSE CheckCount([self EXCEPT !.timestepCount = header.self.timestep_count],
                    self.timestepCount, today)

\* keys = list(self.links["spatial"].keys()); if len(keys) > 0: ...
ReadFirstHeader(self, files, today) ==
    IF Len(self.links) = 0
    THEN [err |-> "ok", self |-> self]
    ELSE InspectHeader(self, SpatialBinaryHeader(files, self.links[1][2].url),
                       today)

RECURSIVE AddLinks(_, _, _, _, _)

AddLink(self, files, reports, i, today, spatial_report) ==
    IF spatial_report.err # "ok"
    THEN [err |-> spatial_report.err, self |-> self]
    ELSE AddLinks([self EXCEPT !.links =
                     DictSet(@, LinkName(reports[i]),
                             Link(reports[i], spatial_report.self))],
                  files, reports, i + 1, today)

\* for i in range(0, len(spatial_reports)): ...
AddLinks(self, files, reports, i, today) ==
    IF i > Len(reports)
    THEN ReadFirstHeader(self, files, today)
    ELSE AddLink(self, files, reports, i, today,
                 SpatialBinary(files, reports[i], TRUE, self.excluded_nodes))

\* add_spatial_reports(spatial_reports): [err, self]
AddSpatialReportsOf(self, files, reports, today) ==
    AddLinks(self, files, reports, 1, today)

\* The open files after add_spatial_reports: each report is read by the
\* constructor until one raises, then the header of the first link.
HeaderHandles(open_files, self, files) ==
    IF Len(self.links) = 0 THEN open_files
    ELSE ReadHandles(open_files, files, self.links[1][2].url,
                     SpatialBinaryHeader(files, self.links[1][2].url).err)

RECURSIVE AddReportsHandles(_, _, _, _, _)

AddReportHandles(open_files, self, files, reports, i, spatial_report) ==
    IF spatial_report.err # "ok"
    THEN ReadHandles(open_files, files, reports[i], spatial_report.err)
    ELSE AddReportsHandles(
           ReadHandles(open_files, files, reports[i], "ok"),
           [self EXCEPT !.links =
              DictSet(@, LinkName(reports[i]),
                      Link(reports[i], spatial_report.self))],
           files, reports, i + 1)

AddReportsHandles(open_files, self, files, reports, i) ==
    IF i > Len(reports) THEN HeaderHandles(open_files, self, files)
    ELSE AddReportHandles(open_files, self, files, reports, i,
                          SpatialBinary(files, reports[i], TRUE,
                                        self.excluded_nodes))

\* The number of calls a run makes on the VisSet.
MaxVisCalls == 2

Durations == 0..MaxSteps
ReportLists ==
    {<<>>} \cup {<<p>> : p \in Paths} \cup {<<p, q>> : p \in Paths, q \in Paths}

\* vis = VisSet()
NewVisSetCall(today) ==
    /\ vis = <<>>
    /\ vis' = <<[self |-> NewVisSet, calls |-> <<>>, today |-> today]>>
    /\ UNCHANGED <<fs, sb, log, reads, clone, spatial_reports, handles>>

VisCall(op, reports, r) ==
    /\ vis' = <<[vis[1] EXCEPT
                   !.self = r.self,
                   !.calls = Append(@, [op |-> op, err |-> r.err,
                                        reports |-> reports,
                                        before |-> vis[1].self])]>>
    /\ UNCHANGED <<fs, sb, log, reads, clone, spatial_reports>>

\* vis.set_config(config_file_path)
SetConfig(duration) ==
    /\ vis # <<>>
    /\ Len(vis[1].calls) < MaxVisCalls
    /\ VisCall("set_config", <<>>,
               SetConfigOf(vis[1].self, duration, vis[1].today))
    /\ handles' = WithExit(handles + 1, "ok")

\* vis.add_spatial_reports(spatial_reports)
AddSpatialReports(reports) ==
    /\ vis # <<>>
    /\ Len(vis[1].calls) < MaxVisCalls
    /\ VisCall("add_spatial_reports", reports,
               AddSpatialReportsOf(vis[1].self, fs, reports, vis[1].today))
    /\ handles' = AddReportsHandles(handles, vis[1].self, fs, reports, 1)

\* The report files a VisSet run finds: one node and 0..MaxSteps timesteps,
\* no node and a timestep count with the top bit set, and a file cut inside
\* its counts.
VisFiles ==
    {FileBytes(<<PackI(10)>>, vals) :
       vals \in UNION {Matrices(1, t, {Num(1)}, {Num(0)}) : t \in 0..MaxSteps}}
    \cup {PackI(0) \o PackI(0 - 1), PackI(0) \o PackI(0 - 2147483647 - 1)}
    \cup {SubSeq(PackI(0) \o PackI(1), 1, 7)}

VisFsEntries == {File(a) : a \in VisFiles} \cup {NoFile}

InitVis ==
    /\ fs \in [Paths -> VisFsEntries]
    /\ Start

NextVis ==
    \/ \E today \in Todays : NewVisSetCall(today)
    \/ \E d \in Durations : SetConfig(d)
    \/ \E reports \in ReportLists : AddSpatialReports(reports)

SpecVis == InitVis /\ [][NextVis]_vars

\* ------------------------------------------- the calls that open a file
\* The files of a file system whose first report may be cut short: every
\* prefix of a report of nodes 10 and 20 with MaxSteps timesteps of the
\* value 1, a report of no timestep, and a report of the node whose id has
\* the top bit set.
IOFiles ==
    Prefixes(FileBytes(<<PackI(10), PackI(20)>>,
                       [t \in 1..MaxSteps |-> <<Num(1), Num(1)>>]))
    \cup {FileBytes(<<PackI(10), PackI(20)>>, <<>>),
          FileBytes(<<PackI(0 - 1)>>, <<<<Num(1)>>>>)}

\* The second report is whole and holds the value 0, or is not there.
InitIO ==
    /\ \E a \in IOFiles :
         fs \in {[p \in Paths |-> IF p = PathA THEN File(a) ELSE b] :
                   b \in {NoFile,
                          File(FileBytes(<<PackI(10), PackI(20)>>,
                                         [t \in 1..MaxSteps |->
                                            <<Num(0), Num(0)>>]))}}
    /\ Start

NextIO ==
    \/ \E p \in Paths \cup {""}, d \in BOOLEAN, x \in ExclusionSets : Load(p, d, x)
    \/ \E p \in Paths \cup {""} : Header(p)
    \/ \E p \in Paths, q \in Paths, f \in CombineFuncs : CombineCall(p, q, f)
    \/ CloneCall
    \/ \E w \in Names, t \in 1..MaxSteps, n \in EditNodes : DelEntry(w, t, n)
    \/ \E p \in Paths \cup {""} : Write(p)

SpecIO == InitIO /\ [][NextIO]_vars

\* ---------------------------------------------------------- SpatialReports
\* SpatialReports(): no directory, no paths.
NewSpatialReports == [paths |-> <<>>, properties |-> {}]

\* The paths and the friendly names a run may pass.
ReportPaths == Paths \cup {PathA2}
FriendlyNames == {"A", "B", "C"}

\* The number of paths a run adds.
MaxPaths == 3

\* list.remove(x): the list without its first item equal to x.
ListRemove(list, x) ==
    SubSeq(list, 1, (CHOOSE k \in 1..Len(list) :
                       list[k] = x /\ \A j \in 1..(k - 1) : list[j] # x) - 1)
      \o SubSeq(list, (CHOOSE k \in 1..Len(list) :
                         list[k] = x /\ \A j \in 1..(k - 1) : list[j] # x) + 1,
                Len(list))

RECURSIVE RemoveLoop(_, _, _)
\* The loop of remove, "for a_path in self.paths", from the i-th item of
\* the list as it is now: the iterator steps to the next index whether or
\* not the body removed an item.
RemoveLoop(self, i, friendly_name) ==
    IF i > Len(self.paths) THEN self
    ELSE IF FriendlyName(self.paths[i]) = friendly_name
    THEN RemoveLoop([self EXCEPT
                       !.paths = ListRemove(@, self.paths[i]),
                       !.properties = @ \ {friendly_name}],
                    i + 1, friendly_name)
    ELSE RemoveLoop(self, i + 1, friendly_name)

\* remove(friendly_name)
Remove(self, friendly_name) == RemoveLoop(self, 1, friendly_name)

\* add(report_path)
Add(self, report_path) == [self EXCEPT !.paths = Append(@, report_path)]

ReportsCall(self, op, arg) ==
    /\ spatial_reports' = <<[self |-> self, last |-> [op |-> op, arg |-> arg]]>>
    /\ UNCHANGED <<fs, sb, log, reads, clone, vis, handles>>

\* reports = SpatialReports()
NewSpatialReportsCall ==
    /\ spatial_reports = <<>>
    /\ ReportsCall(NewSpatialReports, "SpatialReports", "")

\* reports.add(report_path)
AddReport(report_path) ==
    /\ spatial_reports # <<>>
    /\ Len(spatial_reports[1].self.paths) < MaxPaths
    /\ ReportsCall(Add(spatial_reports[1].self, report_path), "add",
                   report_path)

\* reports.properties[friendly_name] = {}
SetProperties(friendly_name) ==
    /\ spatial_reports # <<>>
    /\ ReportsCall([spatial_reports[1].self EXCEPT
                      !.properties = @ \cup {friendly_name}],
                   "properties", friendly_name)

\* reports.remove(friendly_name)
RemoveReport(friendly_name) ==
    /\ spatial_reports # <<>>
    /\ ReportsCall(Remove(spatial_reports[1].self, friendly_name), "remove",
                   friendly_name)

InitReports ==
    /\ fs = [p \in Paths |-> NoFile]
    /\ Start

NextReports ==
    \/ NewSpatialReportsCall
    \/ \E p \in ReportPaths : AddReport(p)
    \/ \E n \in FriendlyNames : SetProperties(n)
    \/ \E n \in FriendlyNames : RemoveReport(n)

SpecReports == InitReports /\ [][NextReports]_vars

\* ----------------------------------------------------------------- claims
\* The last call of a run that has made one.
Last == log[Len(log)]

\* Whether the object the k-th call wrote was made by the j-th call.
MadeBy(j, k) ==
    /\ j < k
    /\ log[j].op \in {"load", "combine"}
    /\ log[j].err = "ok"
    /\ \A m \in (j + 1)..(k - 1) :
         log[m].op \notin {"load", "combine"} \/ log[m].err # "ok"

\* Whether two grids have the same number of timesteps, the same node ids
\* in every timestep and the same value at every timestep and node id.
SameGrid(g, h) ==
    /\ Len(g.timesteps) = Len(h.timesteps)
    /\ \A t \in 1..Len(g.timesteps) :
         /\ DictKeySet(g.timesteps[t]) = DictKeySet(h.timesteps[t])
         /\ \A n \in DictKeySet(g.timesteps[t]) :
              DictGet(g.timesteps[t], n) = DictGet(h.timesteps[t], n)

\* Whether loading the file at path gives the grid g.
LoadsAs(files, path, g) ==
    /\ SpatialBinary(files, path, FALSE, {}).err = "ok"
    /\ SameGrid(SpatialBinary(files, path, FALSE, {}).self, g)

\* C1: a write_binary of a grid that a load with drop_zeros=False made from
\* a file succeeds, and loading the written file gives a grid with the same
\* node ids, the same number of timesteps and the same values.
C1_RoundTrip ==
    \A j \in 1..Len(log) :
      (/\ Last.op = "write_binary"
       /\ MadeBy(j, Len(log))
       /\ log[j].op = "load" /\ log[j].path # "" /\ ~log[j].drop_zeros)
      => (Last.err = "ok" /\ LoadsAs(fs, Last.path, sb[1]))

\* C1: a dense grid with a node id whose top bit is set in the file has been
\* written, and write_binary raised OverflowError.
C1_Overflow ==
    /\ Len(log) = 2
    /\ log[1].op = "load" /\ log[1].err = "ok" /\ ~log[1].drop_zeros
    /\ Last.op = "write_binary" /\ Last.err = "OverflowError"
    /\ \E n \in DictKeySet(sb[1].timesteps[1]) : n < 0

\* Whether the step is a call of write_binary.
WriteStep ==
    /\ sb # <<>>
    /\ Len(log') = Len(log) + 1
    /\ log'[Len(log')].op = "write_binary"

\* C2: write_binary on an object constructed with drop_zeros=True raises
\* ValueError and leaves every file as it was: none created, truncated or
\* partly written.
C2_SparseWriteRejected ==
    [][(WriteStep /\ sb[1].drop_zeros)
         => (log'[Len(log')].err = "ValueError" /\ fs' = fs)]_vars

\* C2: write_binary to a path that holds no file was refused for a sparse
\* grid with timesteps, and the path still holds no file.
C2_Rejected ==
    /\ log # <<>>
    /\ Last.op = "write_binary" /\ Last.err = "ValueError"
    /\ sb[1].drop_zeros
    /\ sb[1].timesteps # <<>>
    /\ Last.path = PathB /\ ~fs[PathB].exists

\* The constructor call of the last load with the other drop_zeros.
OtherDropZeros ==
    SpatialBinary(fs, Last.path, ~Last.drop_zeros, Last.excluded)

\* Whether every timestep of the grid s has at most as many entries as the
\* same timestep of the grid d.
AtMostAsMany(s, d) ==
    /\ Len(s.timesteps) = Len(d.timesteps)
    /\ \A t \in 1..Len(s.timesteps) :
         Len(s.timesteps[t]) <= Len(d.timesteps[t])

\* C3: a load of a file with drop_zeros=True and the load of the same file
\* with the same exclusion set and drop_zeros=False have the same outcome,
\* the same value_min and the same value_max, and every timestep of the
\* sparse grid has at most as many entries as that of the dense grid.
C3_ZeroDropKeepsStats ==
    (log # <<>> /\ Last.op = "load" /\ Last.path # "")
    => /\ OtherDropZeros.err = Last.err
       /\ Last.err = "ok"
          => /\ sb[1].value_min = OtherDropZeros.self.value_min
             /\ sb[1].value_max = OtherDropZeros.self.value_max
             /\ IF Last.drop_zeros THEN AtMostAsMany(sb[1], OtherDropZeros.self)
                ELSE AtMostAsMany(OtherDropZeros.self, sb[1])

\* C3: a file whose least value is a zero has been loaded with
\* drop_zeros=True: value_min is 0 and a timestep lost an entry.
C3_ZeroIsMin ==
    /\ log # <<>>
    /\ Last.op = "load" /\ Last.err = "ok" /\ Last.drop_zeros
    /\ sb[1].value_min = Num(0)
    /\ \E t \in 1..Len(sb[1].timesteps) :
         Len(sb[1].timesteps[t]) < Len(OtherDropZeros.self.timesteps[t])

\* The k-th 4-byte word of a file, from 0.
Word(data, k) == SubSeq(data, 4 * k + 1, 4 * k + 4)

\* The file with, of the n columns of data, the columns kept, in order.
Columns(data, n, t, kept) ==
    PackI(Len(kept)) \o PackI(t)
      \o Concat([j \in 1..Len(kept) |-> Word(data, 1 + kept[j])])
      \o Concat([tt \in 1..t |->
                   Concat([j \in 1..Len(kept) |->
                             Word(data, 1 + n + n * (tt - 1) + kept[j])])])

\* The columns of a file of n nodes that are not node X's.
NotOf(data, n, X) == SortedSeq({i \in 1..n : UnpackI(Word(data, 1 + i)) # X})

\* The well-formed file data with node X's columns removed.
WithoutNode(data, X) ==
    Columns(data, UnpackI(Word(data, 0)), UnpackI(Word(data, 1)),
            NotOf(data, UnpackI(Word(data, 0)), X))

\* The load of the last load's file with no exclusions, and the load of that
\* file with node X's columns removed.
Unexcluded == SpatialBinary(fs, Last.path, Last.drop_zeros, {}).self

Removed(X) ==
    SpatialBinary([fs EXCEPT ![Last.path] = File(WithoutNode(@.bytes, X))],
                  Last.path, Last.drop_zeros, {}).self

\* C4: a load with excluded_node_ids = {X} has the timesteps of the load
\* with no exclusions, and the value_min and value_max of the load of the
\* file with node X's columns removed.
C4_ExclusionOnlyStats ==
    \A X \in UNION ExclusionSets :
      (/\ log # <<>>
       /\ Last.op = "load" /\ Last.err = "ok" /\ Last.path # ""
       /\ Last.excluded = {X})
      => /\ sb[1].timesteps = Unexcluded.timesteps
         /\ sb[1].value_min = Removed(X).value_min
         /\ sb[1].value_max = Removed(X).value_max

\* C4: a file in which node 10 holds the least value has been loaded with
\* node 10 excluded, next to node 20: node 10's values are stored, and
\* value_min is not the one of the load with no exclusions.
C4_ExcludedExtreme ==
    /\ log # <<>>
    /\ Last.op = "load" /\ Last.err = "ok" /\ Last.excluded = {10}
    /\ sb[1].timesteps # <<>>
    /\ DictKeySet(sb[1].timesteps[1]) = {10, 20}
    /\ sb[1].value_min # Unexcluded.value_min
    /\ sb[1].value_min.k = "num"

\* The node count and the timestep count a file declares.
DeclaredNodes(files, path) == UnpackI(Word(files[path].bytes, 0))

DeclaredTimesteps(files, path) == UnpackI(Word(files[path].bytes, 1))

\* Whether the step is a call of combine on two files that load.
CombineStep ==
    /\ Len(log') = Len(log) + 1
    /\ log'[Len(log')].op = "combine"
    /\ SpatialBinary(fs, log'[Len(log')].path, FALSE, {}).err = "ok"
    /\ SpatialBinary(fs, log'[Len(log')].path2, FALSE, {}).err = "ok"

\* C5: combine on two files that declare different node counts or different
\* timestep counts raises the ValueError of that mismatch, returns no grid
\* and has not called combine_func.
C5_CombineFailsFast ==
    [][(/\ CombineStep
        /\ \/ DeclaredNodes(fs, log'[Len(log')].path)
                # DeclaredNodes(fs, log'[Len(log')].path2)
           \/ DeclaredTimesteps(fs, log'[Len(log')].path)
                # DeclaredTimesteps(fs, log'[Len(log')].path2))
       => (/\ log'[Len(log')].err = "ValueError"
           /\ log'[Len(log')].msg \in {"number of nodes", "number of timesteps"}
           /\ log'[Len(log')].ncalls = 0
           /\ sb' = sb)]_vars

\* C5: combine has been refused for two files with timesteps that declare
\* different node counts and the same timestep count.
C5_NodeCountMismatch ==
    /\ log # <<>>
    /\ Last.op = "combine" /\ Last.err = "ValueError"
    /\ Last.msg = "number of nodes" /\ Last.ncalls = 0
    /\ sb = <<>>
    /\ DeclaredNodes(fs, Last.path) # DeclaredNodes(fs, Last.path2)
    /\ DeclaredTimesteps(fs, Last.path) = DeclaredTimesteps(fs, Last.path2)
    /\ DeclaredTimesteps(fs, Last.path) > 0

\* The two inputs of the last combine, loaded.
InputA == SpatialBinary(fs, Last.path, FALSE, {})

InputB == SpatialBinary(fs, Last.path2, FALSE, {})

\* combine_func on the two inputs' values at timestep t and node n.
Combined(t, n) ==
    Apply(Last.func, DictGet(InputA.self.timesteps[t], n),
          DictGet(InputB.self.timesteps[t], n))

\* Whether the last call is a combine of two files that load, with the same
\* node count and the same timestep count, at least 1.
SameShape ==
    /\ log # <<>>
    /\ Last.op = "combine"
    /\ InputA.err = "ok" /\ InputB.err = "ok"
    /\ InputA.self.node_count = InputB.self.node_count
    /\ Len(InputA.self.timesteps) = Len(InputB.self.timesteps)
    /\ Len(InputA.self.timesteps) >= 1

\* Whether the two inputs have the same set of node ids.
SameNodeSet ==
    DictKeySet(InputA.self.timesteps[1]) = DictKeySet(InputB.self.timesteps[1])

\* Whether combine_func returns a value at every timestep and node.
Defined ==
    \A t \in 1..Len(InputA.self.timesteps) :
      \A n \in DictKeySet(InputA.self.timesteps[1]) : Combined(t, n) # Raise

\* C6: combine of two files with the same shape and the same node ids, with
\* a combine_func that returns at every cell, returns a grid with as many
\* timesteps whose value at every timestep and node is
\* combine_func(A's value, B's value).
C6_Elementwise ==
    (SameShape /\ SameNodeSet /\ Defined)
    => /\ Last.err = "ok"
       /\ Len(sb[1].timesteps) = Len(InputA.self.timesteps)
       /\ \A t \in 1..Len(InputA.self.timesteps) :
            \A n \in DictKeySet(InputA.self.timesteps[1]) :
              /\ DictHas(sb[1].timesteps[t], n)
              /\ DictGet(sb[1].timesteps[t], n) = Combined(t, n)

\* C7: combine of two files with the same shape raises the ValueError of the
\* node ids exactly when the sets of node ids of their first timesteps
\* differ.
C7_NodeSetEquality ==
    SameShape
    => ((Last.err = "ValueError" /\ Last.msg = "node ids") <=> ~SameNodeSet)

\* C7: combine has been refused for two files that list the same node ids in
\* a different order.
C7_Reordered ==
    /\ SameShape /\ SameNodeSet
    /\ DictKeys(InputA.self.timesteps[1]) # DictKeys(InputB.self.timesteps[1])
    /\ Last.err = "ValueError" /\ Last.msg = "node ids"

\* The values a file of n nodes and t timesteps holds at the nodes that are
\* not in excluded.
IncludedValues(data, n, t, excluded) ==
    {F32Decode(Word(data, 1 + n + n * (tt - 1) + i)) :
       tt \in 1..t,
       i \in {c \in 1..n : UnpackI(Word(data, 1 + c)) \notin excluded}}

\* The least and the greatest of a non-empty set of finite floats.
MinOf(S) == CHOOSE x \in S : \A y \in S : ~Lt(y, x)

MaxOf(S) == CHOOSE x \in S : \A y \in S : ~Gt(y, x)

Finite(S) == \A x \in S : x.k = "num"

\* The values of the last load's file at the nodes it does not exclude.
Loaded ==
    IncludedValues(fs[Last.path].bytes, DeclaredNodes(fs, Last.path),
                   DeclaredTimesteps(fs, Last.path), Last.excluded)

\* C8: after a load of a file whose values at the nodes not excluded are
\* finite, and at least one, value_min is the least and value_max the
\* greatest of them.
C8_LoadExtrema ==
    (/\ log # <<>>
     /\ Last.op = "load" /\ Last.err = "ok" /\ Last.path # ""
     /\ Loaded # {} /\ Finite(Loaded))
    => (sb[1].value_min = MinOf(Loaded) /\ sb[1].value_max = MaxOf(Loaded))

\* C8: a file whose values are all zero has been loaded, and value_max is
\* sys.float_info.min.
C8_AllZero ==
    /\ log # <<>>
    /\ Last.op = "load" /\ Last.err = "ok" /\ Last.path # ""
    /\ Loaded = {Num(0)}
    /\ sb[1].value_min = Num(0)
    /\ sb[1].value_max = FloatMin

\* The values of the last combine's result, from its inputs.
CombinedValues ==
    {Combined(t, n) : t \in 1..Len(InputA.self.timesteps),
                      n \in DictKeySet(InputA.self.timesteps[1])}

\* C9: after a combine that returned a grid of finite values, value_min is
\* the least and value_max the greatest of combine_func's values over all
\* timesteps and nodes.
C9_CombineExtrema ==
    (SameShape /\ Last.err = "ok" /\ Finite(CombinedValues))
    => /\ sb[1].value_min = MinOf(CombinedValues)
       /\ sb[1].value_max = MaxOf(CombinedValues)

\* C9: a combine has returned a grid whose values are all zero, and
\* value_max is sys.float_info.min.
C9_AllZero ==
    /\ SameShape /\ Last.err = "ok"
    /\ CombinedValues = {Num(0)}
    /\ sb[1].value_min = Num(0)
    /\ sb[1].value_max = FloatMin

\* The finite floats among the inputs of _condition_value.
FiniteInputs == {x \in ConditionInputs : x.k \in {"num", "dmax", "dmin"}}

\* C10: _condition_value returns 0 for NaN, sys.float_info.max for +inf, a
\* finite float that none is below for -inf, and a finite value itself;
\* conditioning what it returns returns the same.
C10_Conditioning ==
    (log # <<>> /\ Last.op = "_condition_value")
    => /\ IsNaN(Last.arg) => Last.ret = Num(0)
       /\ Last.arg = PosInf => Last.ret = FloatMax
       /\ Last.arg = NegInf
          => (Last.ret \in FiniteInputs
              /\ \A x \in FiniteInputs : ~Lt(x, Last.ret))
       /\ Last.arg \in FiniteInputs => Last.ret = Last.arg
       /\ ConditionValue(Last.ret) = Last.ret

\* C10: _condition_value has returned sys.float_info.min, a positive float,
\* for -inf.
C10_NegInf ==
    /\ log # <<>>
    /\ Last.op = "_condition_value"
    /\ Last.arg = NegInf
    /\ Last.ret = FloatMin
    /\ Gt(Last.ret, Num(0))

\* Whether the file at path is well-formed: a header that declares N >= 0
\* nodes and T >= 0 timesteps, and 8 + 4N + 4NT bytes.
WellFormed(files, path) ==
    /\ files[path].exists
    /\ Len(files[path].bytes) >= 8
    /\ DeclaredNodes(files, path) >= 0
    /\ DeclaredTimesteps(files, path) >= 0
    /\ Len(files[path].bytes)
         = 8 + 4 * DeclaredNodes(files, path)
             + 4 * DeclaredNodes(files, path) * DeclaredTimesteps(files, path)

\* Whether a float is a finite number.
IsFinite(x) == x.k \in {"num", "dmax", "dmin"}

\* C11: a load of a well-formed file raises nothing, whatever NaN and
\* infinities it holds, and the value_min and value_max of every grid a
\* load or a combine returned are finite numbers.
C11_FiniteStats ==
    /\ (/\ log # <<>>
        /\ Last.op = "load" /\ Last.path # ""
        /\ WellFormed(fs, Last.path))
       => Last.err = "ok"
    /\ sb # <<>> => (IsFinite(sb[1].value_min) /\ IsFinite(sb[1].value_max))

\* C11: a file that holds +inf has been loaded, and value_max is
\* sys.float_info.max.
C11_InfLoaded ==
    /\ log # <<>>
    /\ Last.op = "load" /\ Last.err = "ok"
    /\ \E t \in 1..Len(sb[1].timesteps) :
         \E i \in 1..Len(sb[1].timesteps[t]) : sb[1].timesteps[t][i][2] = PosInf
    /\ sb[1].value_max = FloatMax

\* The last reading call of a run that has made one.
LastRead == reads[Len(reads)]

\* The header reader on the bytes data at the path of the last reading call.
HeaderOf(data) ==
    SpatialBinaryHeader([fs EXCEPT ![LastRead.path] = File(data)], LastRead.path)

\* C12: SpatialBinaryHeader raises when the file is missing or has fewer
\* than 8 bytes, returns an object when it has 8 or more, and has the same
\* outcome and the same node_count and timestep_count on every file with the
\* same first 8 bytes, whatever follows them.
C12_HeaderOnly ==
    (reads # <<>> /\ LastRead.op = "header" /\ LastRead.path # "")
    => /\ ~fs[LastRead.path].exists => LastRead.err # "ok"
       /\ fs[LastRead.path].exists
          => /\ LastRead.err = "ok" <=> Len(fs[LastRead.path].bytes) >= 8
             /\ \A b \in CutFiles :
                  Slice(b, 0, 8) = Slice(fs[LastRead.path].bytes, 0, 8)
                  => /\ HeaderOf(b).err = LastRead.err
                     /\ HeaderOf(b).self.node_count = LastRead.value.node_count
                     /\ HeaderOf(b).self.timestep_count
                          = LastRead.value.timestep_count

\* C12: the header of a file of 8 bytes that declares MaxNodes nodes and
\* MaxSteps timesteps has been read.
C12_BodyMissing ==
    /\ reads # <<>>
    /\ LastRead.op = "header" /\ LastRead.err = "ok"
    /\ LastRead.path # ""
    /\ Len(fs[LastRead.path].bytes) = 8
    /\ LastRead.value.node_count = MaxNodes
    /\ LastRead.value.timestep_count = MaxSteps

\* Whether count is the unsigned value of the 4 little-endian bytes word:
\* it is not negative and has those bytes.
UnsignedOf(count, word) == count >= 0 /\ PackI(count) = word

\* C13: the node_count and timestep_count of a header object, and the
\* node_count of a loaded grid, are the unsigned values of bytes 0-3 and 4-7
\* of the file: never negative.
C13_UnsignedCounts ==
    /\ (reads # <<>> /\ LastRead.op = "header" /\ LastRead.err = "ok"
          /\ LastRead.path # "")
       => /\ UnsignedOf(LastRead.value.node_count,
                        Word(fs[LastRead.path].bytes, 0))
          /\ UnsignedOf(LastRead.value.timestep_count,
                        Word(fs[LastRead.path].bytes, 1))
    /\ (log # <<>> /\ Last.op = "load" /\ Last.err = "ok" /\ Last.path # "")
       => UnsignedOf(sb[1].node_count, Word(fs[Last.path].bytes, 0))

\* C13: the header of a file whose counts are ff ff ff ff has been read, and
\* both counts are -1.
C13_NegativeCount ==
    /\ reads # <<>>
    /\ LastRead.op = "header" /\ LastRead.err = "ok" /\ LastRead.path # ""
    /\ fs[LastRead.path].bytes = <<255, 255, 255, 255, 255, 255, 255, 255>>
    /\ LastRead.value.node_count = 0 - 1
    /\ LastRead.value.timestep_count = 0 - 1

\* Whether the file at path has a header that declares counts N >= 0 and
\* T >= 0, and fewer than 8 + 4N + 4NT bytes.
Truncated(files, path) ==
    /\ files[path].exists
    /\ Len(files[path].bytes) >= 8
    /\ DeclaredNodes(files, path) >= 0
    /\ DeclaredTimesteps(files, path) >= 0
    /\ Len(files[path].bytes)
         < 8 + 4 * DeclaredNodes(files, path)
             + 4 * DeclaredNodes(files, path) * DeclaredTimesteps(files, path)

\* C14: a load of a truncated file raises and returns no grid.
C14_TruncatedRejected ==
    [][(/\ Len(log') = Len(log) + 1
        /\ log'[Len(log')].op = "load" /\ log'[Len(log')].path # ""
        /\ Truncated(fs, log'[Len(log')].path))
       => (log'[Len(log')].err # "ok" /\ sb' = sb)]_vars

\* C14: a file of 8 bytes that declares MaxNodes nodes and no timestep has
\* been loaded: a grid of MaxNodes nodes with no timesteps.
C14_ShortTable ==
    /\ log # <<>>
    /\ Last.op = "load" /\ Last.err = "ok" /\ Last.path # ""
    /\ Truncated(fs, Last.path)
    /\ Len(fs[Last.path].bytes) = 8
    /\ sb[1].node_count = MaxNodes
    /\ sb[1].timesteps = <<>>

\* Whether the step is a call of __getitem__, and of __len__.
GetItemStep ==
    /\ Len(reads') = Len(reads) + 1
    /\ reads'[Len(reads')].op = "__getitem__"

LenStep ==
    /\ Len(reads') = Len(reads) + 1
    /\ reads'[Len(reads')].op = "__len__"

\* C18: on a grid of T timesteps, indexing with 0 <= i < T returns the i-th
\* timestep, indexing with any other integer raises IndexError, and len is
\* T.
C18_BoundsChecked ==
    [][/\ GetItemStep
          => IF 0 <= reads'[Len(reads')].index
                /\ reads'[Len(reads')].index < Len(sb[1].timesteps)
             THEN /\ reads'[Len(reads')].err = "ok"
                  /\ reads'[Len(reads')].value
                       = sb[1].timesteps[reads'[Len(reads')].index + 1]
             ELSE reads'[Len(reads')].err = "IndexError"
       /\ LenStep => reads'[Len(reads')].value = Len(sb[1].timesteps)]_vars

\* C18: a grid of MaxSteps timesteps has been indexed with -1, and the call
\* returned its last timestep.
C18_NegativeIndex ==
    /\ reads # <<>> /\ sb # <<>>
    /\ LastRead.op = "__getitem__" /\ LastRead.index = 0 - 1
    /\ Len(sb[1].timesteps) = MaxSteps
    /\ LastRead.err = "ok"
    /\ LastRead.value = sb[1].timesteps[MaxSteps]

\* C19: after a load that returned a grid, the header reader's node_count on
\* the same file is the grid's node_count, and its timestep_count the number
\* of the grid's timesteps.
C19_HeaderAgrees ==
    (/\ log # <<>> /\ reads # <<>>
     /\ Last.op = "load" /\ Last.err = "ok" /\ Last.path # ""
     /\ LastRead.op = "header" /\ LastRead.path = Last.path)
    => /\ LastRead.err = "ok"
       /\ LastRead.value.node_count = sb[1].node_count
       /\ LastRead.value.timestep_count = Len(sb[1].timesteps)

\* C19: a file that declares no node and -1 timesteps has been loaded, to a
\* grid with no timesteps, and its header read, with timestep_count -1.
C19_NegativeTimesteps ==
    /\ log # <<>> /\ reads # <<>>
    /\ Last.op = "load" /\ Last.err = "ok" /\ Last.path # ""
    /\ LastRead.op = "header" /\ LastRead.path = Last.path
    /\ LastRead.err = "ok"
    /\ LastRead.value.timestep_count = 0 - 1
    /\ Len(sb[1].timesteps) = 0

\* Whether the grid is dense, with at least one timestep, and all its
\* timesteps have the key set of the first.
Rectangular(self) ==
    /\ ~self.drop_zeros
    /\ Len(self.timesteps) >= 1
    /\ \A t \in 1..Len(self.timesteps) :
         DictKeySet(self.timesteps[t]) = DictKeySet(self.timesteps[1])

\* Whether data has the layout of the grid self with k keys and t timesteps:
\* 8 + 4k + 4kt bytes, the header (k, t), the keys in ascending order, and
\* in the tt-th block at position i the value of the i-th key at timestep tt.
Layout(data, self, k, t) ==
    /\ Len(data) = 8 + 4 * k + 4 * k * t
    /\ Word(data, 0) = PackI(k)
    /\ Word(data, 1) = PackI(t)
    /\ {UnpackI(Word(data, 1 + i)) : i \in 1..k} = DictKeySet(self.timesteps[1])
    /\ \A i \in 1..k, j \in 1..k :
         i < j => UnpackI(Word(data, 1 + i)) < UnpackI(Word(data, 1 + j))
    /\ \A tt \in 1..t, i \in 1..k :
         F32Decode(Word(data, 1 + k + k * (tt - 1) + i))
           = DictGet(self.timesteps[tt], UnpackI(Word(data, 1 + i)))

\* C15: write_binary on a dense grid with T >= 1 timesteps that all have the
\* key set K succeeds and leaves at the path a file with the layout of the
\* grid.
C15_WriteLayout ==
    [][(WriteStep /\ Rectangular(sb[1]))
       => /\ log'[Len(log')].err = "ok"
          /\ Layout(fs'[log'[Len(log')].path].bytes, sb[1],
                    Cardinality(DictKeySet(sb[1].timesteps[1])),
                    Len(sb[1].timesteps))]_vars

\* C15: write_binary has raised OverflowError on a dense grid with
\* timesteps, one of whose keys is negative, and written nothing.
C15_NegativeKey ==
    /\ log # <<>> /\ sb # <<>>
    /\ Last.op = "write_binary" /\ Last.err = "OverflowError"
    /\ Rectangular(sb[1])
    /\ \E n \in DictKeySet(sb[1].timesteps[1]) : n < 0
    /\ Last.path = PathB /\ ~fs[PathB].exists

\* Whether the step is a call of combine that returned a grid.
CombinedStep ==
    /\ Len(log') = Len(log) + 1
    /\ log'[Len(log')].op = "combine"
    /\ log'[Len(log')].err = "ok"

\* C16: a write_binary that succeeds sets source_file to its path, one that
\* raises leaves source_file as it was, and the grid combine returns has
\* the source_file "".
C16_SourceFile ==
    [][/\ WriteStep
          => sb'[1].source_file
               = IF log'[Len(log')].err = "ok" THEN log'[Len(log')].path
                 ELSE sb[1].source_file
       /\ CombinedStep => sb'[1].source_file = ""]_vars

\* C16: a grid that combine returned has been written, and its source_file
\* is the path written.
C16_CombinedWritten ==
    /\ Len(log) = 2
    /\ log[1].op = "combine" /\ log[1].err = "ok"
    /\ Last.op = "write_binary" /\ Last.err = "ok"
    /\ sb[1].source_file = Last.path
    /\ sb[1].source_file # ""

\* ---------------------------------------------------------------- C17
\* A step that makes the copy, and a step that changes one of the two
\* objects after the copy was made.
CloneStep == clone = <<>> /\ clone' # <<>>

EditStep == clone # <<>> /\ clone' # <<>> /\ sb # <<>>

\* C17: clone returns a deep, independent copy.  Immediately after clone the
\* copy equals the original in every field; after the copy is made, a step
\* that changes the copy (sets, adds or removes a timestep entry, sets
\* value_min, value_max or channel_name, or writes it) leaves every field of
\* the original as it was, and a step that changes or writes the original
\* leaves every field of the copy as it was.
C17_CloneIndependent ==
    [][/\ CloneStep => clone'[1].self = sb[1] /\ sb' = sb
       /\ EditStep =>
            \/ sb' = sb
            \/ clone'[1].self = clone[1].self]_vars

\* Reached: after MaxEdits changes the copy differs from the original in its
\* timesteps and in an attribute, and the original has timesteps.
C17_CopyDiverged ==
    /\ clone # <<>> /\ sb # <<>>
    /\ clone[1].edits = MaxEdits
    /\ sb[1].timesteps # <<>>
    /\ clone[1].self.timesteps # sb[1].timesteps

\* ---------------------------------------------------------------- C20
\* The last call made on the VisSet, and a step that is a call of
\* add_spatial_reports with at least one report.
LastVisCall == vis[1].calls[Len(vis[1].calls)]

AddReportsStep ==
    /\ vis # <<>>
    /\ Len(vis'[1].calls) = Len(vis[1].calls) + 1
    /\ LastVisCall'.op = "add_spatial_reports"
    /\ Len(LastVisCall'.reports) >= 1

\* The timestep_count in the header of the report add_spatial_reports
\* inspects: the first of the VisSet's spatial links.
InspectedCount(self) ==
    SpatialBinaryHeader(fs, self.links[1][2].url).self.timestep_count

\* C20: a timestep-count mismatch is fatal.  A call of add_spatial_reports
\* with at least one report completes normally only when no timestep count
\* was configured or the configured count is the timestep_count in the header
\* of the report it inspects; with a configured count that differs, it raises.
C20_MismatchFatal ==
    [][AddReportsStep /\ LastVisCall'.err = "ok"
         => \/ vis[1].self.config = <<>>
            \/ vis[1].self.timestepCount = InspectedCount(vis'[1].self)]_vars

\* Reached: a config with Simulation_Duration 0 was set and a call with a
\* report of one timestep or more completed normally.
C20_ZeroConfigured ==
    /\ vis # <<>> /\ vis[1].calls # <<>>
    /\ LastVisCall.op = "add_spatial_reports"
    /\ LastVisCall.err = "ok"
    /\ Len(LastVisCall.reports) >= 1
    /\ LastVisCall.before.config = <<0>>
    /\ LastVisCall.before.timestepCount = 0
    /\ InspectedCount(vis[1].self) >= 1

\* ---------------------------------------------------------------- C21
\* C21: file handles are released on every exit path.  After any call of
\* the header reader, the constructor, write_binary or combine, whether it
\* returned or raised (a decode error in the body, a missing key in the
\* middle of a write), no file the call opened is still open.
C21_HandlesReleased == handles = 0

\* Reached: a write raised KeyError after it opened its file, in a run
\* whose load or combine call raised or returned.
C21_WriteRaisedInside ==
    /\ log # <<>>
    /\ Last.op = "write_binary"
    /\ Last.err = "KeyError"
    /\ fs[Last.path].exists

\* ---------------------------------------------------------------- C22
\* Whether the node id table of the file at path holds no id twice.
DistinctIds(files, path) ==
    \A i \in 1..DeclaredNodes(files, path), j \in 1..DeclaredNodes(files, path) :
      Word(files[path].bytes, 1 + i) = Word(files[path].bytes, 1 + j) => i = j

\* The entries of a mapping whose value is not 0.0, in their order.
NonZero(entries) == SelectSeq(entries, LAMBDA entry : ~Eq(entry[2], Num(0)))

\* Whether the last call loaded, with drop_zeros=True, a file of distinct
\* node ids.
SparseLoaded ==
    /\ log # <<>> /\ sb # <<>>
    /\ Last.op = "load" /\ Last.err = "ok" /\ Last.path # ""
    /\ Last.drop_zeros
    /\ DistinctIds(fs, Last.path)

\* C22: sparse storage drops exactly the zeros.  For a file of distinct
\* node ids, the grid loaded with drop_zeros=True has as many timestep
\* mappings as the file declares, and its timestep t holds exactly the
\* entries of the dense grid's timestep t (the load of the same file with
\* drop_zeros=False) whose value is not 0.0, with the same values.
C22_ExactlyZerosDropped ==
    SparseLoaded
    => /\ Len(sb[1].timesteps) = DeclaredTimesteps(fs, Last.path)
       /\ Len(OtherDropZeros.self.timesteps) = Len(sb[1].timesteps)
       /\ \A t \in 1..Len(sb[1].timesteps) :
            /\ sb[1].timesteps[t] = NonZero(OtherDropZeros.self.timesteps[t])
            /\ \A i \in 1..Len(sb[1].timesteps[t]) :
                 ~Eq(sb[1].timesteps[t][i][2], Num(0))

\* Reached: a sparse load of a file of two nodes and two timesteps left one
\* mapping empty and stored a value in the other.
C22_EmptyMapping ==
    /\ SparseLoaded
    /\ DeclaredNodes(fs, Last.path) = 2
    /\ Len(sb[1].timesteps) = 2
    /\ \E t \in 1..2 : sb[1].timesteps[t] = <<>>
    /\ \E t \in 1..2 : sb[1].timesteps[t] # <<>>

\* ---------------------------------------------------------------- C23
\* Whether the last call loaded a file with drop_zeros=False.
DenseLoaded ==
    /\ log # <<>> /\ sb # <<>>
    /\ Last.op = "load" /\ Last.err = "ok" /\ Last.path # ""
    /\ ~Last.drop_zeros

\* The i-th node id of the table of a file, and the i-th float of the t-th
\* value block of a file of n nodes.
TableId(data, i) == UnpackI(Word(data, 1 + i))

BlockValue(data, n, t, i) == F32Decode(Word(data, 1 + n + n * (t - 1) + i))

\* Whether the mapping holds, for each of the n nodes of the table, the
\* float at the node's position in the t-th value block.
Positional(entries, data, n, t) ==
    \A i \in 1..n :
      /\ DictHas(entries, TableId(data, i))
      /\ DictGet(entries, TableId(data, i)) = BlockValue(data, n, t, i)

\* C23: dense mappings are complete.  A grid loaded with drop_zeros=False
\* from a file that declares N nodes and T timesteps has T timestep
\* mappings, each with exactly node_count = N entries, and
\* timesteps[t][node_ids[i]] is the i-th float of the t-th value block for
\* every position i and timestep t.
C23_DenseComplete ==
    DenseLoaded
    => /\ sb[1].node_count = DeclaredNodes(fs, Last.path)
       /\ Len(sb[1].timesteps) = DeclaredTimesteps(fs, Last.path)
       /\ \A t \in 1..Len(sb[1].timesteps) :
            /\ Len(sb[1].timesteps[t]) = sb[1].node_count
            /\ Positional(sb[1].timesteps[t], fs[Last.path].bytes,
                          sb[1].node_count, t)

\* Reached: a dense load of a file whose table holds node 10 twice gave a
\* mapping of one entry for two nodes.
C23_RepeatedId ==
    /\ DenseLoaded
    /\ sb[1].node_count = 2
    /\ ~DistinctIds(fs, Last.path)
    /\ \E t \in 1..Len(sb[1].timesteps) : Len(sb[1].timesteps[t]) = 1

\* ---------------------------------------------------------------- C24
\* A step that is a call of remove, and the paths whose friendly name is
\* not the one it was given, in their order.
RemoveStep ==
    /\ spatial_reports # <<>>
    /\ spatial_reports' # spatial_reports
    /\ spatial_reports'[1].last.op = "remove"

OtherReports(paths, friendly_name) ==
    SelectSeq(paths, LAMBDA fp : FriendlyName(fp) # friendly_name)

\* C24: remove(friendly_name) removes the spatial binary with that friendly
\* name.  After the call no path whose friendly name is friendly_name is
\* left in paths, also when several such paths are adjacent in the list,
\* and every path with another friendly name is still there, in its
\* original relative order.
C24_RemoveByName ==
    [][RemoveStep
         => spatial_reports'[1].self.paths
              = OtherReports(spatial_reports[1].self.paths,
                             spatial_reports'[1].last.arg)]_vars

\* Reached: after remove("A") a path whose friendly name is A is left.
C24_AdjacentLeft ==
    /\ spatial_reports # <<>>
    /\ spatial_reports[1].last.op = "remove"
    /\ spatial_reports[1].last.arg = "A"
    /\ \E i \in 1..Len(spatial_reports[1].self.paths) :
         FriendlyName(spatial_reports[1].self.paths[i]) = "A"

\* ---------------------------------------------------------------- C25
\* The object as _read_binary has it when the loop over the timesteps of a
\* well-formed file of n nodes ends, before the statistics are conditioned.
BeforeConditioning(data, n, drop_zeros, excluded_node_ids) ==
    ReadTimesteps([NewSpatialBinary(drop_zeros, excluded_node_ids)
                     EXCEPT !.node_count = n],
                  0, UnpackI(Word(data, 1)), data, 8 + 4 * n,
                  Items(ReadItems(data, 8, n))).self

\* The object as combine has it when its loop over the timesteps ends.
CombinedBeforeConditioning ==
    CombineTimesteps([InputA.self EXCEPT !.value_min = FloatMax,
                                         !.value_max = FloatMin],
                     1, InputB.self, Last.func, 0).sb1

\* The cells of a file of n nodes whose value is not an extremum the load
\* found: the node is excluded, or the value is neither the minimum nor the
\* maximum of raw.  Cell k is word 1 + n + k of the file.
OffExtrema(data, n, excluded_node_ids, raw) ==
    {k \in 1..(n * UnpackI(Word(data, 1))) :
       \/ TableId(data, ((k - 1) % n) + 1) \in excluded_node_ids
       \/ /\ ~Eq(F32Decode(Word(data, 1 + n + k)), raw.value_min)
          /\ ~Eq(F32Decode(Word(data, 1 + n + k)), raw.value_max)}

\* The file with NaN in the cells P.
WithNaN(data, n, P) ==
    [b \in 1..Len(data) |->
       IF \E k \in P : (b - 1) \div 4 = 1 + n + k
       THEN F32Encode(NaN)[((b - 1) % 4) + 1]
       ELSE data[b]]

\* Whether the load of the file with NaN in the cells P has the statistics
\* of the object self.
SameStatistics(self, data, n, P, drop_zeros, excluded_node_ids) ==
    /\ SpatialBinary([fs EXCEPT ![Last.path] = File(WithNaN(data, n, P))],
                     Last.path, drop_zeros, excluded_node_ids).err = "ok"
    /\ SpatialBinary([fs EXCEPT ![Last.path] = File(WithNaN(data, n, P))],
                     Last.path, drop_zeros, excluded_node_ids).self.value_min
         = self.value_min
    /\ SpatialBinary([fs EXCEPT ![Last.path] = File(WithNaN(data, n, P))],
                     Last.path, drop_zeros, excluded_node_ids).self.value_max
         = self.value_max

LoadKeepsNaNOut(data, n, raw) ==
    /\ ~IsNaN(raw.value_min) /\ ~IsNaN(raw.value_max)
    /\ \A P \in SUBSET OffExtrema(data, n, Last.excluded, raw) :
         SameStatistics(sb[1], data, n, P, Last.drop_zeros, Last.excluded)

\* C25: NaN values never enter the statistics.  When the loop of a load or
\* of a combine ends, before conditioning, value_min and value_max are not
\* NaN, so _condition_value is never given a NaN by load or combine; and a
\* file that differs from the loaded one only by NaN in place of values at
\* positions that are not the extrema loads with the same value_min and
\* value_max.
C25_NaNOutOfStatistics ==
    /\ (/\ log # <<>> /\ sb # <<>>
        /\ Last.op = "load" /\ Last.err = "ok" /\ Last.path # "")
       => LoadKeepsNaNOut(fs[Last.path].bytes, DeclaredNodes(fs, Last.path),
                          BeforeConditioning(fs[Last.path].bytes,
                                             DeclaredNodes(fs, Last.path),
                                             Last.drop_zeros, Last.excluded))
    /\ (log # <<>> /\ Last.op = "combine" /\ Last.err = "ok")
       => /\ ~IsNaN(CombinedBeforeConditioning.value_min)
          /\ ~IsNaN(CombinedBeforeConditioning.value_max)

\* Reached: a load stored a NaN of a node it does not exclude and found the
\* maximum 1 among the other values.
C25_NaNLoaded ==
    /\ DenseLoaded
    /\ Last.excluded = {}
    /\ \E t \in 1..Len(sb[1].timesteps) :
         \E i \in 1..Len(sb[1].timesteps[t]) : IsNaN(sb[1].timesteps[t][i][2])
    /\ sb[1].value_max = Num(1)

\* ---------------------------------------------------------------- C26
\* Whether the last call is a load of a file, or a combine, that returned a
\* grid, and the values it saw: the file's values at the nodes not excluded,
\* or combine_func's values.
Returning ==
    /\ log # <<>> /\ sb # <<>>
    /\ Last.err = "ok"
    /\ \/ Last.op = "load" /\ Last.path # ""
       \/ Last.op = "combine"

Seen == IF Last.op = "load" THEN Loaded ELSE CombinedValues

\* C26: statistics are ordered.  A grid returned by load or combine that saw
\* at least one value that is not NaN at a node not excluded has
\* value_min <= value_max after conditioning, also with infinities among
\* the values; a grid that saw none (no timestep, no node, every node
\* excluded, every value NaN) has the initial sentinels, value_min greater
\* than value_max, and only such a grid has.
C26_Ordered ==
    Returning
    => IF \E x \in Seen : ~IsNaN(x)
       THEN ~Gt(sb[1].value_min, sb[1].value_max)
       ELSE /\ sb[1].value_min = FloatMax
            /\ sb[1].value_max = FloatMin
            /\ Gt(sb[1].value_min, sb[1].value_max)

\* Reached: a load whose only value at a node not excluded is -inf.
C26_OnlyNegInf ==
    /\ Returning
    /\ Last.op = "load"
    /\ Seen = {NegInf}
    /\ sb[1].value_min = sb[1].value_max

\* ---------------------------------------------------------------- C27
\* Whether the step is a call of combine on two files that are there, with at
\* least the 8 bytes of their counts.
CombineOfFiles ==
    /\ Len(log') = Len(log) + 1
    /\ log'[Len(log')].op = "combine"
    /\ fs[log'[Len(log')].path].exists
    /\ fs[log'[Len(log')].path2].exists
    /\ Len(fs[log'[Len(log')].path].bytes) >= 8
    /\ Len(fs[log'[Len(log')].path2].bytes) >= 8

\* C27: a grid with zero timesteps cannot be written or combined.
\* write_binary on a dense grid whose timesteps list is empty raises before
\* the output file is opened: no file is created or changed.  combine of
\* two files that both declare timestep_count 0 and the same node_count
\* raises and returns no grid.
C27_EmptyRejected ==
    [][/\ (WriteStep /\ ~sb[1].drop_zeros /\ sb[1].timesteps = <<>>)
          => /\ log'[Len(log')].err # "ok"
             /\ fs' = fs
             /\ handles' = handles
       /\ (/\ CombineOfFiles
           /\ DeclaredTimesteps(fs, log'[Len(log')].path) = 0
           /\ DeclaredTimesteps(fs, log'[Len(log')].path2) = 0
           /\ DeclaredNodes(fs, log'[Len(log')].path)
                = DeclaredNodes(fs, log'[Len(log')].path2))
          => /\ log'[Len(log')].err # "ok"
             /\ sb' = sb]_vars

\* Reached: a write of a dense grid of two nodes and no timestep raised, to
\* a path where no file is.
C27_EmptyWriteRaised ==
    /\ log # <<>> /\ sb # <<>>
    /\ Last.op = "write_binary"
    /\ Last.err = "IndexError"
    /\ ~sb[1].drop_zeros /\ sb[1].timesteps = <<>>
    /\ sb[1].node_count = 2
    /\ ~fs[Last.path].exists

\* ---------------------------------------------------------------- C28
\* C28: a failed write leaves the grid unchanged.  Whenever write_binary
\* raises (sparse grid, no timestep, a node id that cannot be encoded, a key
\* missing from a later timestep, an I/O failure), source_file,
\* channel_name, node_count, timesteps, value_min and value_max are as before
\* the call; source_file changes only on a write that completes.
C28_FailedWriteKeepsGrid ==
    [][WriteStep
         => /\ log'[Len(log')].err # "ok"
               => /\ sb'[1].source_file = sb[1].source_file
                  /\ sb'[1].channel_name = sb[1].channel_name
                  /\ sb'[1].node_count = sb[1].node_count
                  /\ sb'[1].timesteps = sb[1].timesteps
                  /\ sb'[1].value_min = sb[1].value_min
                  /\ sb'[1].value_max = sb[1].value_max
            /\ sb'[1].source_file # sb[1].source_file
               => log'[Len(log')].err = "ok"]_vars

\* Reached: a write to another path than the grid's source raised KeyError
\* in a later timestep, after the file was opened and partly written.
C28_RaisedMidWrite ==
    /\ log # <<>> /\ sb # <<>>
    /\ Last.op = "write_binary"
    /\ Last.err = "KeyError"
    /\ Last.path # sb[1].source_file
    /\ fs[Last.path].exists
    /\ Len(sb[1].timesteps) = 2

\* ---------------------------------------------------------------- C29
\* Whether the last call was a combine that returned its grid.
CombineReturned == log # <<>> /\ sb # <<>> /\ Last.op = "combine" /\ Last.err = "ok"

Validated ==
    /\ SameShape
    /\ ~NodesDiffer(DictKeys(InputA.self.timesteps[1]),
                    DictKeys(InputB.self.timesteps[1]))

\* Whether the last call divides, and the second file holds a 0.
DividesByZero ==
    /\ Last.func = "divide"
    /\ \E t \in 1..Len(InputB.self.timesteps) :
         \E n \in DictKeySet(InputB.self.timesteps[t]) :
           DictGet(InputB.self.timesteps[t], n) = Num(0)

\* C30: an error raised by the combine function aborts combine.  When
\* combine_func raises at some timestep and node, as divide_combiner does
\* where the second file's value is 0, combine raises that error and returns
\* no grid (combine is the first call, so there is no grid at all after it):
\* no infinity or NaN is stored in its place.
C30_CombineFuncAborts ==
    (/\ log # <<>>
     /\ Last.op = "combine"
     /\ Validated
     /\ (~Defined \/ DividesByZero))
      => /\ Last.err = "ZeroDivisionError"
         /\ sb = <<>>

\* Reached: divide_combiner raised at the second cell or later, after
\* combine had stored a quotient, and no grid was returned.
C30_RaisedAfterStore ==
    /\ log # <<>>
    /\ Last.op = "combine" /\ Last.func = "divide"
    /\ Last.err = "ZeroDivisionError"
    /\ Last.ncalls >= 2
    /\ sb = <<>>

====
